---- MODULE Spec2Model ----
(***************************************************************************)
(* Verification model of competitor_ai: the retrieval-fusion engine        *)
(* (search_engine.py), the judge-based reranker, the word/sentence chunker *)
(* (chunker.py), the batch ingestion pipeline (ingest_internal_doc.py and  *)
(* its variants), MemorySafeIngestion and the collection repair tools.     *)
(*                                                                         *)
(* The module holds one state machine per component.  Each component has   *)
(* its own variables, initial predicate and next-state relation; the       *)
(* variables of the other components are parked at fixed idle values.      *)
(*   SpecSearch  : one ask_enhanced request                                *)
(*   SpecRerank  : one llm_rerank_chunks call (pure function, all inputs)  *)
(*   SpecChunk   : one chunk_text_smart call (pure function, all inputs)   *)
(*   SpecIngest  : one run of an ingestion script, faults included         *)
(*   SpecReingest: runs in a row over the same index, no fault             *)
(*   SpecMeta    : one document through a chunker pipeline (metadata)      *)
(*   SpecCollect : the collection and ordering of the files to ingest      *)
(*   SpecDryRun  : runs in a row with --dry-run and --reset-collection     *)
(*   SpecFailures: one run over text files and a PDF that may fail         *)
(*   SpecFilter  : one filter_chunk_quality call (pure function)           *)
(*   SpecMem     : one MemorySafeIngestion.ingest call                     *)
(*   SpecRepair  : one run of a collection repair tool                     *)
(***************************************************************************)
EXTENDS Integers, Sequences, FiniteSets, TLC

VARIABLES
    \* ---- ask_enhanced (search_engine.py) ----
    mode,            \* request mode: "semantic" | "keyword" | "hybrid" | "full"
    use_reranking,   \* the request's reranking flag
    pc,              \* position of the request inside ask_enhanced
    quality_chunks,  \* search_semantic_enhanced: quality-filtered hits, before its rerank
    sem_docs,        \* value returned by search_semantic_enhanced
    key_docs,        \* value returned by search_keyword_enhanced
    fused,           \* hybrid: all_docs right after the combine/deduplicate loop
    all_docs,        \* hybrid: all_docs as used to build the context
    context,         \* the chunks joined into the prompt context
    outcome,         \* "pending" | "answer" | "no_docs" | "error"
    rerank_calls,    \* number of oracle calls made for reranking in this request
    sem_raised,      \* the vector backend call raised
    key_raised,      \* the keyword backend call raised
    \* ---- llm_rerank_chunks in isolation ----
    rr_pc,           \* "idle" | "call" | "returned"
    rr_chunks,       \* candidates
    rr_top_k,        \* top_k
    rr_oracle,       \* what the oracle did when asked
    rr_ret,          \* what llm_rerank_chunks did
    \* ---- chunk_text_smart (chunker.py) ----
    ck_pc,           \* "idle" | "call" | "returned"
    ck_words,        \* the words of the text, in order
    ck_chunk_size,   \* chunk_size
    ck_overlap,      \* overlap
    ck_preserve,     \* preserve_sentences
    ck_ret,          \* [raised, chunks]: what chunk_text_smart did
    \* ---- the ingestion run (ingest_internal_doc.py and its variants) ----
    faults,          \* irregular answers of the environment so far in this run:
                     \* calls that raised, chunkers that gave nothing, chunks dropped
    variant,         \* which ingestion script runs: "internal" | "fixed" | "improved"
    ing_pc,          \* "idle" | "start" | "file" | "chunker" | "enqueue" | "done"
    run,             \* number of the current run (1 = first)
    all_files,       \* the admitted files, in processing order
    limit,           \* --limit (0 = None)
    dry_run,         \* --dry-run
    file_i,          \* position of the file loop in all_files (1-based)
    strat_i,         \* position of the strategy loop (1-based)
    chunks_n,        \* number of chunks the current strategy produced for the file
    chunk_idx,       \* enumerate() index of the next chunk
    file_count,      \* file_count
    chunk_count,     \* chunk_count
    batch,           \* batch
    failed_files,    \* failed_files
    collection,      \* the index: the items committed so far (at most one per id)
    reported,        \* identifiers printed as failed individual items
    enqueued,        \* history: the items appended to batch in this run, in order
    last_flush,      \* history: the latest flush_batch call on a non-empty batch
    flushed,         \* history: the items handed to flush_batch in this run, call after call
    skipped,         \* history: the files the file loop left without chunking them, and why
    result,          \* how the run ended: "" | "dry" | "limit" | "complete" | "raised"
    produced,        \* the chunk count of each (file, strategy) read so far (content is fixed)
    prev_enqueued,   \* history: enqueued of the previous run
    prev_collection, \* history: collection at the end of the previous run
    \* ---- chunk metadata (chunker.py, metadata_chunker.py, company_tagging_chunker.py) ----
    md_pc,           \* "idle" | "call" | "ran" | "reran"
    md_doc,          \* the document: its tag names, mentioned companies and chunks
    md_pipeline,     \* which caller builds the items: "internal" | "fixed" | "driver"
    md_out,          \* what the run handed to the commit queue
    md_again,        \* the same, for a second run over the same text in a new process
    \* ---- file collection in isolation (ingest_internal_doc.py 112-128) ----
    cf_pc,           \* "idle" | "call" | "returned"
    cf_variant,      \* the script that collects
    cf_discovered,   \* the files in the order the walk finds them
    cf_priority_dirs,\* priority_dirs
    cf_include_pdf,  \* include_pdf
    cf_exclude_exts, \* exclude_exts
    cf_ret,          \* all_files after the sort
    \* ---- filter_chunk_quality in isolation (search_engine.py 81-103) ----
    fq_pc,           \* "idle" | "call" | "returned"
    fq_chunks,       \* chunks
    fq_min_words,    \* min_words
    fq_ret,          \* the list returned
    fq_twice,        \* the list returned when the filter is given fq_ret
    \* ---- MemorySafeIngestion.ingest (memory_safe_ingestion.py) ----
    ms_pc,           \* "idle" | "loop" | "done"
    ms_n,            \* len(chunks)
    ms_size,         \* self.batch_size
    ms_i,            \* enumerate() index of the next chunk
    ms_batch,        \* batch: the ids of the pending items
    ms_bad,          \* the ids whose add raises
    ms_adds,         \* history: every collection.add call, its id and whether it went through
    \* ---- the collection repair tools (fixed_collection_repair.py, fix_collection.py) ----
    rp_pc,           \* "idle" | "backup" | "confirm" | "clean" | "ingest" | "done"
    rp_tool,         \* "fixed_collection_repair" | "fix_collection"
    rp_live,         \* the directory chroma_db
    rp_backup,       \* the directory chroma_db_backup
    rp_backed_up,    \* what backup_collection returned
    rp_at_removal    \* history: <<>> or <<[live, backup]>> as they were when chroma_db was removed

searchVars == <<mode, use_reranking, pc, quality_chunks, sem_docs, key_docs, fused,
                all_docs, context, outcome, rerank_calls, sem_raised, key_raised>>
rerankVars == <<rr_pc, rr_chunks, rr_top_k, rr_oracle, rr_ret>>
chunkVars == <<ck_pc, ck_words, ck_chunk_size, ck_overlap, ck_preserve, ck_ret>>
ingestVars == <<faults, variant, ing_pc, run, all_files, limit, dry_run, file_i, strat_i, chunks_n,
                chunk_idx, file_count, chunk_count, batch, failed_files, collection,
                reported, enqueued, last_flush, flushed, skipped, result, produced,
                prev_enqueued, prev_collection>>
metaVars == <<md_pc, md_doc, md_pipeline, md_out, md_again>>
collectVars == <<cf_pc, cf_variant, cf_discovered, cf_priority_dirs, cf_include_pdf,
                 cf_exclude_exts, cf_ret>>
filterVars == <<fq_pc, fq_chunks, fq_min_words, fq_ret, fq_twice>>
memVars == <<ms_pc, ms_n, ms_size, ms_i, ms_batch, ms_bad, ms_adds>>
repairVars == <<rp_pc, rp_tool, rp_live, rp_backup, rp_backed_up, rp_at_removal>>
toolVars == <<filterVars, memVars, repairVars>>
vars == <<searchVars, rerankVars, chunkVars, ingestVars, metaVars, collectVars, toolVars>>

(***************************************************************************)
(* Generic helpers for Python list operations.                             *)
(***************************************************************************)
Min(a, b) == IF a <= b THEN a ELSE b

\* s[:k] for k >= 0
Take(s, k) == SubSeq(s, 1, Min(k, Len(s)))

Elems(s) == {s[i] : i \in 1..Len(s)}

NoDuplicates(s) == \A i, j \in 1..Len(s) : i # j => s[i] # s[j]

\* index of the first occurrence of x in s (0 when absent)
FirstIndex(s, x) ==
    IF x \in Elems(s) THEN CHOOSE i \in 1..Len(s) : s[i] = x /\ \A j \in 1..(i-1) : s[j] # x
    ELSE 0

(***************************************************************************)
(* Chunk texts.  A text is a small integer; what the code reads of a text  *)
(* is its word count, whether it holds a boilerplate phrase, and whether   *)
(* it is the empty string.                                                 *)
(***************************************************************************)
NGood == 8                      \* number of distinct texts that pass the quality filter
GoodTexts == 1..NGood
EmptyText == 0                  \* ""
ShortText == NGood + 1          \* a 10-word chunk
LegalText == NGood + 2          \* a 60-word chunk holding "privacy policy"
CapitalLegalText == NGood + 4   \* a 60-word chunk holding "All Rights Reserved"
BoundaryText == NGood + 5       \* a chunk of exactly 50 words

WordCount(t) ==
    IF t = EmptyText THEN 0
    ELSE IF t = ShortText THEN 10
    ELSE IF t = BoundaryText THEN 50
    ELSE 60

\* the legal phrase a text holds, as it is spelled in the text ("" for none)
Phrase(t) ==
    IF t = LegalText THEN "privacy policy"
    ELSE IF t = CapitalLegalText THEN "All Rights Reserved"
    ELSE ""

\* str.lower() on the spellings in use
Lower(str) == IF str = "All Rights Reserved" THEN "all rights reserved" ELSE str

boilerplate_signals ==
    {"terms and conditions", "privacy policy", "copyright", "all rights reserved",
     "disclaimer", "agreement", "legal notice", "cookie policy"}

\* any(signal in chunk_lower for signal in boilerplate_signals)
HasBoilerplate(t) == Lower(Phrase(t)) \in boilerplate_signals

MinWords == 50                  \* filter_chunk_quality(min_words=50)
SemNResults == 10               \* search_semantic_enhanced(n_results=10)
KeyNResults == 5                \* search_keyword_enhanced(n_results=5)
SemTopK == 5                    \* llm_rerank_chunks(..., top_k=5) in search_semantic_enhanced
HybridCap == 7                  \* len(all_docs) > 7 / top_k=7 in ask_enhanced

\* mutant: a chunk of exactly min_words words is dropped
RECURSIVE FilterLoopStrict(_, _, _, _)
FilterLoopStrict(chunks, min_words, i, quality) ==
    IF i > Len(chunks) THEN quality
    ELSE IF WordCount(chunks[i]) <= min_words
         THEN FilterLoopStrict(chunks, min_words, i + 1, quality)
    ELSE IF HasBoilerplate(chunks[i])
         THEN FilterLoopStrict(chunks, min_words, i + 1, quality)
    ELSE FilterLoopStrict(chunks, min_words, i + 1, Append(quality, chunks[i]))

\* filter_chunk_quality: the loop over chunks, appending the ones that pass
RECURSIVE FilterLoop(_, _, _, _)
FilterLoop(chunks, min_words, i, quality) ==
    IF i > Len(chunks) THEN quality
    ELSE IF WordCount(chunks[i]) < min_words
         THEN FilterLoop(chunks, min_words, i + 1, quality)
    ELSE IF HasBoilerplate(chunks[i])
         THEN FilterLoop(chunks, min_words, i + 1, quality)
    ELSE FilterLoop(chunks, min_words, i + 1, Append(quality, chunks[i]))

filter_chunk_quality(chunks) == FilterLoop(chunks, MinWords, 1, <<>>)

(***************************************************************************)
(* The judging oracle and llm_rerank_chunks.                               *)
(* An oracle answer is either an exception or a comma-separated response;  *)
(* a response is modelled by its tokens after split(',') and strip():      *)
(*   [k |-> "int", v |-> n]  digits only, int() gives n >= 0               *)
(*   [k |-> "junk"]          isdigit() is False ("", "abc", "-1", "[2]")   *)
(*   [k |-> "sup"]           isdigit() is True but int() raises ValueError *)
(*                           (a superscript digit such as U+00B2)          *)
(***************************************************************************)
IntTok(n) == [k |-> "int", v |-> n]
JunkTok == [k |-> "junk", v |-> 0]
SupTok == [k |-> "sup", v |-> 0]

IsDigit(tok) == tok.k \in {"int", "sup"}

OracleRaise == [raises |-> TRUE, tokens |-> <<>>]
OracleSays(toks) == [raises |-> FALSE, tokens |-> toks]

\* what llm_rerank_chunks hands back: the list, the 0-based candidate positions
\* it was built from, the number of oracle calls made, whether an exception escaped
RerankRet(out, picked, calls, raised) ==
    [out |-> out, picked |-> picked, calls |-> calls, raised |-> raised]

\* mutant: an empty list instead of chunks[:top_k]
RerankFallbackEmpty(chunks, top_k, calls) == RerankRet(<<>>, <<>>, calls, FALSE)

\* return chunks[:top_k]
RerankFallback(chunks, top_k, calls) ==
    RerankRet(Take(chunks, top_k), [i \in 1..Min(top_k, Len(chunks)) |-> i - 1], calls, FALSE)

\* lines 70-71: the two list comprehensions (a "sup" token makes int() raise)
ParsedDigits(tokens) == SelectSeq(tokens, IsDigit)
ParseRaises(tokens) == \E i \in 1..Len(tokens) : tokens[i].k = "sup"
\* mutant: the parsed indices are not cut to top_k
ParsedIndicesUncut(tokens, n, top_k) ==
    LET ints == [i \in 1..Len(ParsedDigits(tokens)) |-> ParsedDigits(tokens)[i].v]
    IN SelectSeq(ints, LAMBDA x : 0 <= x /\ x < n)

ParsedIndices(tokens, n, top_k) ==
    LET ints == [i \in 1..Len(ParsedDigits(tokens)) |-> ParsedDigits(tokens)[i].v]
        inrange == SelectSeq(ints, LAMBDA x : 0 <= x /\ x < n)
    IN Take(inrange, top_k)

llm_rerank_chunks(chunks, top_k, oracle) ==
    IF Len(chunks) <= top_k
    THEN RerankRet(chunks, [i \in 1..Len(chunks) |-> i - 1], 0, FALSE)
    ELSE IF oracle.raises \/ ParseRaises(oracle.tokens)
         THEN RerankFallback(chunks, top_k, 1)          \* except Exception
    ELSE LET indices == ParsedIndices(oracle.tokens, Len(chunks), top_k)
         IN IF indices = <<>>
            THEN RerankFallback(chunks, top_k, 1)       \* if not indices
            ELSE RerankRet([j \in 1..Len(indices) |-> chunks[indices[j] + 1]],
                           indices, 1, FALSE)

(***************************************************************************)
(* llm_rerank_chunks as a pure function: every candidate list, top_k and   *)
(* oracle answer within the bounds.                                        *)
(***************************************************************************)
MaxCand == 3                    \* longest candidate list
NCandTexts == 2                 \* distinct candidate texts (lists may repeat a text)
MaxTopK == 2                    \* largest top_k
MaxResp == 2                    \* most tokens in an oracle response

SeqsUpTo(S, n) == UNION {[1..m -> S] : m \in 0..n}

Tokens == {IntTok(n) : n \in 0..MaxCand} \cup {JunkTok, SupTok}

\* str.split(',') never returns an empty list: a response has at least one token
OracleAnswers == {OracleRaise} \cup {OracleSays(t) : t \in SeqsUpTo(Tokens, MaxResp) \ {<<>>}}

OracleNotAsked == OracleSays(<<>>)

NoRet == RerankRet(<<>>, <<>>, 0, FALSE)

RerankIdle ==
    /\ rr_pc = "idle" /\ rr_chunks = <<>> /\ rr_top_k = 0
    /\ rr_oracle = OracleNotAsked /\ rr_ret = NoRet

SearchIdle ==
    /\ mode = "none" /\ use_reranking = FALSE /\ pc = "idle"
    /\ quality_chunks = <<>> /\ sem_docs = <<>> /\ key_docs = <<>>
    /\ fused = <<>> /\ all_docs = <<>> /\ context = <<>>
    /\ outcome = "pending" /\ rerank_calls = 0
    /\ sem_raised = FALSE /\ key_raised = FALSE

NoFlushYet == [n |-> 0, batch |-> <<>>, raised |-> FALSE, failed |-> {}]

IngestIdle ==
    /\ faults = 0
    /\ variant = "none" /\ ing_pc = "idle" /\ run = 0 /\ all_files = <<>>
    /\ limit = 0 /\ dry_run = FALSE /\ file_i = 0 /\ strat_i = 0 /\ chunks_n = 0
    /\ chunk_idx = 0 /\ file_count = 0 /\ chunk_count = 0 /\ batch = <<>>
    /\ failed_files = <<>> /\ collection = {} /\ reported = {} /\ enqueued = <<>>
    /\ last_flush = NoFlushYet /\ result = "" /\ produced = {}
    /\ flushed = <<>> /\ skipped = <<>>
    /\ prev_enqueued = <<>> /\ prev_collection = {}

NoDocument == [tags |-> <<>>, mentions |-> {}, chunks |-> <<>>]

NoItems == [raised |-> FALSE, aborted |-> FALSE, companies |-> <<>>, items |-> <<>>]

MetaIdle ==
    /\ md_pc = "idle" /\ md_doc = NoDocument /\ md_pipeline = "none"
    /\ md_out = NoItems /\ md_again = NoItems

CollectIdle ==
    /\ cf_pc = "idle" /\ cf_variant = "none" /\ cf_discovered = <<>>
    /\ cf_priority_dirs = <<>> /\ cf_include_pdf = FALSE /\ cf_exclude_exts = {}
    /\ cf_ret = <<>>

\* a directory: whether it exists, the content it was made from (a number,
\* 0 for a fresh index) and whether all of that content is there
Dir(exists, of, complete) == [exists |-> exists, of |-> of, complete |-> complete]

Absent == Dir(FALSE, 0, FALSE)

FilterIdle ==
    /\ fq_pc = "idle" /\ fq_chunks = <<>> /\ fq_min_words = 0
    /\ fq_ret = <<>> /\ fq_twice = <<>>

MemIdle ==
    /\ ms_pc = "idle" /\ ms_n = 0 /\ ms_size = 0 /\ ms_i = 0
    /\ ms_batch = <<>> /\ ms_bad = {} /\ ms_adds = <<>>

RepairIdle ==
    /\ rp_pc = "idle" /\ rp_tool = "none" /\ rp_live = Absent /\ rp_backup = Absent
    /\ rp_backed_up = FALSE /\ rp_at_removal = <<>>

ToolsIdle == FilterIdle /\ MemIdle /\ RepairIdle

\* The oracle is consulted only when there is something to cut (line 47).
RerankCall ==
    /\ rr_pc = "call"
    /\ \E o \in (IF Len(rr_chunks) <= rr_top_k THEN {OracleNotAsked} ELSE OracleAnswers) :
          /\ rr_oracle' = o
          /\ rr_ret' = llm_rerank_chunks(rr_chunks, rr_top_k, o)
    /\ rr_pc' = "returned"
    /\ UNCHANGED <<rr_chunks, rr_top_k, searchVars, chunkVars, ingestVars, metaVars, collectVars, toolVars>>

(***************************************************************************)
(* chunker.py.  A text is the sequence of its words (what text.split()     *)
(* gives after the whitespace clean-up of line 13).  A word carries its    *)
(* position in the text and the two things the sentence regex reads of it: *)
(* whether it ends in one of . ! ? and whether it starts with A-Z.         *)
(* A chunk is the sequence of the words joined into it.                    *)
(***************************************************************************)
MaxWords == 5                   \* longest text, in words
MaxChunkSize == 3               \* largest chunk_size

WordKinds == {"w", "w.", "W", "W."}

EndsSentence(word) == word.kind \in {"w.", "W."}
StartsUpper(word) == word.kind \in {"W", "W."}

TextOf(kinds) == [i \in 1..Len(kinds) |-> [pos |-> i, kind |-> kinds[i]]]

Texts == {TextOf(kinds) : kinds \in SeqsUpTo(WordKinds, MaxWords)}

ChunkRet(raised, chunks) == [raised |-> raised, chunks |-> chunks]

\* words[i:i + chunk_size] for i >= 0, chunk_size >= 0 (0-based, end exclusive)
Slice(words, i, j) == SubSeq(words, i + 1, Min(j, Len(words)))

\* lines 76-79: for i in range(0, len(words), step), step > 0
RECURSIVE WordsLoop(_, _, _, _, _)
WordsLoop(words, chunk_size, step, i, chunks) ==
    IF i >= Len(words) THEN chunks
    ELSE LET chunk == Slice(words, i, i + chunk_size)
         IN WordsLoop(words, chunk_size, step, i + step,
                      IF chunk # <<>> THEN Append(chunks, chunk) ELSE chunks)

\* mutant: the window advances by chunk_size, the overlap is ignored
ChunkByWordsNoOverlap(words, chunk_size, overlap) ==
    ChunkRet(FALSE, WordsLoop(words, chunk_size, chunk_size, 0, <<>>))

\* _chunk_by_words: range() raises ValueError for a step of 0 and is empty for
\* a negative step
ChunkByWords(words, chunk_size, overlap) ==
    LET step == chunk_size - overlap
    IN IF step = 0 THEN ChunkRet(TRUE, <<>>)
       ELSE IF step < 0 THEN ChunkRet(FALSE, <<>>)
       ELSE ChunkRet(FALSE, WordsLoop(words, chunk_size, step, 0, <<>>))

\* line 24: re.split(r'(?<=[.!?])\s+(?=[A-Z])', text): a new sentence starts at
\* word i+1 when word i ends in . ! ? and word i+1 starts with a capital
RECURSIVE SplitSentences(_, _, _, _)
SplitSentences(words, i, current, sentences) ==
    IF i > Len(words) THEN Append(sentences, current)
    ELSE IF current # <<>> /\ EndsSentence(words[i - 1]) /\ StartsUpper(words[i])
         THEN SplitSentences(words, i + 1, <<words[i]>>, Append(sentences, current))
         ELSE SplitSentences(words, i + 1, Append(current, words[i]), sentences)

Sentences(words) == SplitSentences(words, 1, <<>>, <<>>)

\* ' '.join(current_chunk): the words of the sentences, in order
RECURSIVE JoinSentences(_)
JoinSentences(sents) ==
    IF sents = <<>> THEN <<>> ELSE Head(sents) \o JoinSentences(Tail(sents))

\* lines 50-57: sentences taken from the end of current_chunk while they fit
\* in overlap words; returns the overlap sentences
RECURSIVE OverlapLoop(_, _, _, _, _)
OverlapLoop(current_chunk, overlap_words, i, overlap_sentences, overlap_word_count) ==
    IF i < 1 THEN overlap_sentences
    ELSE IF overlap_word_count + Len(current_chunk[i]) <= overlap_words
         THEN OverlapLoop(current_chunk, overlap_words, i - 1,
                          <<current_chunk[i]>> \o overlap_sentences,
                          overlap_word_count + Len(current_chunk[i]))
         ELSE overlap_sentences

\* lines 33-67: the loop over the sentences and the final chunk
RECURSIVE SentencesLoop(_, _, _, _, _, _)
SentencesLoop(sentences, chunk_size, overlap, i, chunks, current_chunk) ==
    IF i > Len(sentences)
    THEN IF current_chunk # <<>> THEN Append(chunks, JoinSentences(current_chunk)) ELSE chunks
    ELSE LET sentence == sentences[i]
             current_word_count == Len(JoinSentences(current_chunk))
         IN IF sentence = <<>>
            THEN SentencesLoop(sentences, chunk_size, overlap, i + 1, chunks, current_chunk)
            ELSE IF current_word_count + Len(sentence) > chunk_size /\ current_chunk # <<>>
                 THEN SentencesLoop(sentences, chunk_size, overlap, i + 1,
                          Append(chunks, JoinSentences(current_chunk)),
                          Append(OverlapLoop(current_chunk, overlap, Len(current_chunk), <<>>, 0),
                                 sentence))
                 ELSE SentencesLoop(sentences, chunk_size, overlap, i + 1, chunks,
                          Append(current_chunk, sentence))

ChunkBySentences(words, chunk_size, overlap) ==
    ChunkRet(FALSE, SentencesLoop(Sentences(words), chunk_size, overlap, 1, <<>>, <<>>))

\* chunk_text_smart (lines 5-18)
chunk_text_smart(words, chunk_size, overlap, preserve_sentences) ==
    IF words = <<>> THEN ChunkRet(FALSE, <<>>)
    ELSE IF preserve_sentences THEN ChunkBySentences(words, chunk_size, overlap)
    ELSE ChunkByWords(words, chunk_size, overlap)

NoChunks == ChunkRet(FALSE, <<>>)

ChunkIdle ==
    /\ ck_pc = "idle" /\ ck_words = <<>> /\ ck_chunk_size = 0 /\ ck_overlap = 0
    /\ ck_preserve = FALSE /\ ck_ret = NoChunks

ChunkCall ==
    /\ ck_pc = "call"
    /\ ck_ret' = chunk_text_smart(ck_words, ck_chunk_size, ck_overlap, ck_preserve)
    /\ ck_pc' = "returned"
    /\ UNCHANGED <<ck_words, ck_chunk_size, ck_overlap, ck_preserve, searchVars, rerankVars, ingestVars, metaVars, collectVars, toolVars>>

InitChunk ==
    /\ ck_pc = "call"
    /\ ck_words \in Texts
    /\ ck_chunk_size \in 1..MaxChunkSize
    /\ ck_overlap \in 0..(ck_chunk_size + 1)
    /\ ck_preserve \in BOOLEAN
    /\ ck_ret = NoChunks
    /\ SearchIdle
    /\ RerankIdle
    /\ IngestIdle
    /\ MetaIdle
    /\ CollectIdle
    /\ ToolsIdle

NextChunk == ChunkCall

SpecChunk == InitChunk /\ [][NextChunk]_vars

(***************************************************************************)
(* The ingestion run.  Three scripts of the repository share its shape:    *)
(*   "internal"  ingest_internal_doc.py  ingest_documents_from_directories *)
(*   "fixed"     fixed_ingestion.py      ingest_documents                  *)
(*   "improved"  improved_ingestion_claud.py                               *)
(* The file system, the chunk producers and the index are the environment: *)
(* what a directory walk lists, what a read or a chunker call gives and    *)
(* whether an add raises are chosen at the step that asks.                 *)
(***************************************************************************)
BatchSize == 2                  \* batch_size (50 in the scripts)
MaxChunks == 2                  \* most chunks one strategy produces for one file
MaxLimit == 3                   \* largest --limit
MaxRuns == 2                    \* runs in a row over the same index
MaxFaults == 1                  \* most irregular answers of the environment in one run

Variants == {"internal", "fixed", "improved"}

File(dir, stem, ext) == [dir |-> dir, stem |-> stem, ext |-> ext]

\* os.path base name: what the scripts call filename
Filename(f) == <<f.stem, f.ext>>

Directories == <<"internal_data", "output">>     \* directories=["internal_data", "output"]

FilesUniverse ==
    {File("internal_data", "a", ".txt"), File("output", "a", ".txt"),
     File("output", "notes", ".md")}

\* every order in which a directory listing can give a set of files
RECURSIVE Orders(_)
Orders(S) ==
    IF S = {} THEN {<<>>}
    ELSE UNION {{<<x>> \o rest : rest \in Orders(S \ {x})} : x \in S}

ListingsIn(dir, universe) ==
    UNION {Orders(present) : present \in SUBSET {f \in universe : f.dir = dir}}

\* os.walk over the directories in order (lines 114-125)
DiscoveriesIn(universe) ==
    {first \o second : first \in ListingsIn(Directories[1], universe),
                       second \in ListingsIn(Directories[2], universe)}

Listings(dir) == ListingsIn(dir, FilesUniverse)

Discoveries == DiscoveriesIn(FilesUniverse)

\* should_process_file (lines 59-71)
should_process_file(f, include_pdf, exclude_exts) ==
    IF f.ext \in exclude_exts THEN FALSE
    ELSE IF f.ext = ".txt" THEN TRUE
    ELSE IF f.ext = ".pdf" /\ include_pdf THEN TRUE
    ELSE FALSE

\* priority_dir in str(filepath)
PathContains(f, priority_dir) == f.dir = priority_dir \/ f.stem = priority_dir

\* get_file_priority (lines 52-57); priorities count from 0
get_file_priority(f, priority_dirs) ==
    IF \E i \in 1..Len(priority_dirs) : PathContains(f, priority_dirs[i])
    THEN (CHOOSE i \in 1..Len(priority_dirs) :
             /\ PathContains(f, priority_dirs[i])
             /\ \A j \in 1..(i - 1) : ~PathContains(f, priority_dirs[j])) - 1
    ELSE Len(priority_dirs)

PriorityOrders == {<<"internal_data">>, <<"output", "internal_data">>}

\* mutant: a sort that does not keep the order of equal keys
RECURSIVE SortTiesReversed(_, _, _)
SortTiesReversed(entries, p, maxp) ==
    IF p > maxp THEN <<>>
    ELSE LET bucket == SelectSeq(entries, LAMBDA e : e.priority = p)
         IN [i \in 1..Len(bucket) |-> bucket[Len(bucket) + 1 - i]]
            \o SortTiesReversed(entries, p + 1, maxp)

\* all_files.sort(key=lambda x: x[2]): list.sort is stable
RECURSIVE SortByPriority(_, _, _)
SortByPriority(entries, p, maxp) ==
    IF p > maxp THEN <<>>
    ELSE SelectSeq(entries, LAMBDA e : e.priority = p) \o SortByPriority(entries, p + 1, maxp)

\* lines 112-128: the admitted files of a walk, in processing order
CollectFiles(v, discovered, include_pdf, exclude_exts, priority_dirs) ==
    LET admitted == SelectSeq(discovered,
                       LAMBDA f : should_process_file(f, include_pdf, exclude_exts))
        entries == [i \in 1..Len(admitted) |->
                       [file |-> admitted[i],
                        priority |-> get_file_priority(admitted[i], priority_dirs)]]
        ordered == IF v = "improved" THEN entries
                   ELSE SortByPriority(entries, 0, Len(priority_dirs))
    IN [i \in 1..Len(ordered) |-> ordered[i].file]

\* the chunk producers each script runs on a file
Strategies(v) ==
    IF v = "fixed" THEN <<"DefaultChunker", "CompanyChunker">>
    ELSE IF v = "internal" THEN <<"chunk_text_with_metadata">>
    ELSE <<"chunk_text">>

\* the identifier given to a chunk.  The f-strings join a file name that ends
\* in its extension with decimal numbers (and a class name) by "_": the parts
\* can be read back from the right, so the string is the tuple.
\*   internal: f"{filename}_{chunk_idx}_{file_count}"
\*   fixed:    f"{filename}_{chunker.__class__.__name__}_{i}_{file_count}"
\*   improved: f"{filename}_{idx}"
ChunkId(v, f, strategy, idx, fc) ==
    IF v = "internal" THEN <<Filename(f), idx, fc>>
    ELSE IF v = "fixed" THEN <<Filename(f), strategy, idx, fc>>
    ELSE <<Filename(f), idx>>

\* what a chunk text can be: "ok", "short" (fewer than 5 words or 20
\* characters: what improved's validate_chunk rejects) or "blank" (only a
\* chunker class of fixed can give that; line 157 drops it)
ChunkKinds(v) ==
    IF v = "fixed" THEN {"ok", "short", "blank"} ELSE {"ok", "short"}

\* validate_chunk (improved, lines 13-26) / chunk_text.strip() (fixed, line 157)
SkippedBeforeEnqueue(v, kind) ==
    \/ v = "fixed" /\ kind = "blank"
    \/ v = "improved" /\ kind # "ok"

Item(id, f, kind) == [id |-> id, file |-> f, kind |-> kind]

CommittedIds(coll) == {c.id : c \in coll}

\* collection.add of one item: an id already in the index is not added again
AddOne(coll, item) ==
    IF item.id \in CommittedIds(coll) THEN coll ELSE coll \cup {item}

RECURSIVE AddAll(_, _)
AddAll(coll, items) ==
    IF items = <<>> THEN coll ELSE AddAll(AddOne(coll, Head(items)), Tail(items))

FlushState(coll, rep) == [collection |-> coll, reported |-> rep]

\* lines 245-253: the item-by-item fallback
RECURSIVE ItemLoop(_, _, _, _, _)
ItemLoop(coll, rep, b, failed, i) ==
    IF i > Len(b) THEN FlushState(coll, rep)
    ELSE IF i \in failed
         THEN ItemLoop(coll, rep \cup {b[i].id}, b, failed, i + 1)
         ELSE ItemLoop(AddOne(coll, b[i]), rep, b, failed, i + 1)

\* mutant: the fallback gives up at the first item that fails
RECURSIVE ItemLoopStops(_, _, _, _, _)
ItemLoopStops(coll, rep, b, failed, i) ==
    IF i > Len(b) THEN FlushState(coll, rep)
    ELSE IF i \in failed
         THEN FlushState(coll, rep \cup {b[i].id})
         ELSE ItemLoopStops(AddOne(coll, b[i]), rep, b, failed, i + 1)

FlushBatchStops(v, coll, rep, b, o) ==
    IF b = <<>> THEN FlushState(coll, rep)
    ELSE IF ~o.raised THEN FlushState(AddAll(coll, b), rep)
    ELSE IF v = "improved" THEN FlushState(coll, rep)
    ELSE ItemLoopStops(coll, rep, b, o.failed, 1)

\* flush_batch.  o is what the index does: whether the multi-item add raises
\* and, if so, which of the items fail when added on their own.
\*   internal/fixed (ingest_internal_doc.py 230-253, fixed_ingestion.py 60-80):
\*     one add of the batch, then the item-by-item fallback
\*   improved (improved_ingestion_claud.py 28-65): the items are validated
\*     again, then one add; a failure is printed and nothing else is tried
FlushBatch(v, coll, rep, b, o) ==
    IF b = <<>> THEN FlushState(coll, rep)
    ELSE IF v = "improved"
         THEN LET valid_items == SelectSeq(b, LAMBDA item : item.kind = "ok")
              IN IF valid_items = <<>> \/ o.raised THEN FlushState(coll, rep)
                 ELSE FlushState(AddAll(coll, valid_items), rep)
    ELSE IF ~o.raised THEN FlushState(AddAll(coll, b), rep)
    ELSE ItemLoop(coll, rep, b, o.failed, 1)

AddOk == [raised |-> FALSE, failed |-> {}]

\* An environment says which faults and options a specification lets happen.
FullEnv == [faults |-> TRUE, limits |-> 0..MaxLimit, dry |-> BOOLEAN,
            kinds |-> {"ok", "short", "blank"}, counts |-> 0..MaxChunks,
            variants |-> Variants, files |-> FilesUniverse, resets |-> BOOLEAN,
            budget |-> MaxFaults]
CalmEnv == [faults |-> FALSE, limits |-> {0}, dry |-> {FALSE},
            kinds |-> {"ok"}, counts |-> 1..MaxChunks,
            variants |-> {"internal", "fixed"}, files |-> FilesUniverse,
            resets |-> {FALSE}, budget |-> 0]

\* the environment may still give an irregular answer
MayRaise(env) == env.faults /\ faults < env.budget

\* the answers the index can give to a flush of batch b
FlushOutcomes(b, env, spent) ==
    IF b = <<>> \/ ~env.faults \/ spent >= env.budget THEN {AddOk}
    ELSE {AddOk} \cup {[raised |-> TRUE, failed |-> S] : S \in SUBSET (1..Len(b))}

\* a call of flush_batch(collection, b)
Flush(b, o) ==
    LET after == FlushBatch(variant, collection, reported, b, o)
    IN /\ collection' = after.collection
       /\ reported' = after.reported
       /\ last_flush' = IF b = <<>> THEN last_flush
                        ELSE [n |-> last_flush.n + 1, batch |-> b,
                              raised |-> o.raised, failed |-> o.failed]
       /\ flushed' = flushed \o b

NoFlush == UNCHANGED <<collection, reported, last_flush, flushed>>

\* mutant: the limit is noticed one item late
LimitReachedLate(lim, count) == lim # 0 /\ count > lim

\* "if limit and chunk_count >= limit" (line 194)
LimitReached(lim, count) == lim # 0 /\ count >= lim

\* mutant: a full batch is noticed one item late
BatchFullLate(b) == Len(b) > BatchSize

\* "if len(batch) >= batch_size" (line 200)
BatchFull(b) == Len(b) >= BatchSize

\* a file the file loop leaves behind
Skip(f, why) == [file |-> f, why |-> why]

\* the chunk counts a (file, strategy) can give: the one recorded if the file
\* was chunked before (its content does not change), else any
ChunkCounts(f, strategy, env) ==
    IF \E r \in produced : r.file = f /\ r.strat = strategy
    THEN {r.n : r \in {q \in produced : q.file = f /\ q.strat = strategy}}
    ELSE IF variant = "fixed" THEN env.counts ELSE env.counts \ {0}

CurrentFile == all_files[file_i]

\* the file loop moves to the next file; counted says whether the file
\* reached "file_count += 1"
NextFile(counted) ==
    /\ file_i' = file_i + 1
    /\ file_count' = IF counted /\ variant # "improved" THEN file_count + 1 ELSE file_count
    /\ strat_i' = 0
    /\ chunks_n' = 0
    /\ chunk_idx' = 0
    /\ ing_pc' = "file"

\* the strategy loop is done with the current strategy
NextStrategy ==
    IF strat_i < Len(Strategies(variant))
    THEN /\ strat_i' = strat_i + 1
         /\ chunks_n' = 0
         /\ chunk_idx' = 0
         /\ ing_pc' = "chunker"
         /\ UNCHANGED <<file_i, file_count>>
    ELSE NextFile(TRUE)

\* the chunk loop is done with the current chunk
NextChunkOfFile ==
    IF chunk_idx + 1 < chunks_n
    THEN /\ chunk_idx' = chunk_idx + 1
         /\ UNCHANGED <<file_i, file_count, strat_i, chunks_n, ing_pc>>
    ELSE NextStrategy

\* set-up, the directory walk, the sort and the dry-run return (lines 91-138).
\* --reset-collection (lines 97-99; only ingest_internal_doc.py acts on it)
\* imports reset_collection from embedding_config.  embedding_config.py has
\* no such function, so the import raises and the run ends there;
\* fixed_embedding_config.py, written to take its place, has one that
\* deletes the collection and creates it again (lines 54-71).  has_reset says
\* which of the two modules is installed.
StartRun(env) ==
    /\ ing_pc = "start"
    /\ \E discovered \in DiscoveriesIn(env.files), priority_dirs \in PriorityOrders,
          include_pdf \in BOOLEAN, exclude_exts \in {{}, {".pdf"}},
          lim \in env.limits, dry \in env.dry, reset \in env.resets,
          has_reset \in BOOLEAN :
          LET resets == reset /\ variant = "internal"
              dry_returns == dry /\ variant # "improved"
          IN /\ limit' = lim
             /\ dry_run' = dry_returns
             /\ IF resets /\ ~has_reset
                THEN /\ result' = "raised"
                     /\ ing_pc' = "done"
                     /\ file_i' = 0
                     /\ UNCHANGED <<all_files, collection>>
                ELSE /\ collection' = IF resets THEN {} ELSE collection
                     /\ all_files' = CollectFiles(variant, discovered, include_pdf,
                                                  exclude_exts, priority_dirs)
                     /\ IF dry_returns
                        THEN /\ result' = "dry"
                             /\ ing_pc' = "done"
                             /\ file_i' = 0
                        ELSE /\ result' = ""
                             /\ ing_pc' = "file"
                             /\ file_i' = 1
    /\ UNCHANGED <<faults, variant, run, strat_i, chunks_n, chunk_idx, file_count, chunk_count,
                   batch, failed_files, reported, enqueued, last_flush, flushed, skipped,
                   produced, prev_enqueued, prev_collection>>
    /\ UNCHANGED <<searchVars, rerankVars, chunkVars, metaVars, collectVars, toolVars>>

\* mutant: the except branch keeps no record
ForgetFailure == UNCHANGED failed_files

\* the except branch of the file loop (lines 206-209; fixed_ingestion.py
\* 176-178 keeps no list)
RecordFailure ==
    failed_files' = IF variant = "internal"
                    THEN Append(failed_files, CurrentFile) ELSE failed_files

\* the head of the file loop: read the file, skip it when too short
\* (lines 146-171)
ReadFile(env) ==
    /\ ing_pc = "file"
    /\ file_i <= Len(all_files)
    /\ \/ /\ MayRaise(env)                           \* read_txt or os.stat raises
          /\ faults' = faults + 1
          /\ RecordFailure
          /\ skipped' = Append(skipped, Skip(CurrentFile, "raised"))
          /\ NextFile(FALSE)
       \/ /\ MayRaise(env)                           \* read_pdf cannot read the file: it
          /\ CurrentFile.ext = ".pdf"                \* prints, returns "" (lines 48-50) and
          /\ faults' = faults + 1                    \* the file is skipped as too short
          /\ skipped' = Append(skipped, Skip(CurrentFile, "unreadable"))
          /\ NextFile(FALSE)
          /\ UNCHANGED failed_files
       \/ /\ env.faults                              \* content shorter than the minimum
          /\ skipped' = Append(skipped, Skip(CurrentFile, "short"))
          /\ NextFile(FALSE)
          /\ UNCHANGED <<failed_files, faults>>
       \/ /\ strat_i' = 1
          /\ ing_pc' = "chunker"
          /\ UNCHANGED <<file_i, file_count, chunks_n, chunk_idx, failed_files, faults,
                         skipped>>
    /\ UNCHANGED <<variant, run, all_files, limit, dry_run, chunk_count, batch,
                   collection, reported, enqueued, last_flush, flushed, result, produced,
                   prev_enqueued, prev_collection>>
    /\ UNCHANGED <<searchVars, rerankVars, chunkVars, metaVars, collectVars, toolVars>>

\* one strategy chunks the file (line 174; fixed_ingestion.py 143-149).  A
\* chunker that raises ends the file in the except branch.
RunChunker(env) ==
    /\ ing_pc = "chunker"
    /\ \/ /\ MayRaise(env)
          /\ variant \in {"internal", "fixed"}
          /\ faults' = faults + 1
          /\ RecordFailure
          /\ skipped' = Append(skipped, Skip(CurrentFile, "raised"))
          /\ NextFile(FALSE)
          /\ UNCHANGED produced
       \/ \E k \in ChunkCounts(CurrentFile, Strategies(variant)[strat_i], env) :
            /\ produced' = produced \cup
                  {[file |-> CurrentFile, strat |-> Strategies(variant)[strat_i], n |-> k]}
            /\ k = 0 => MayRaise(env)
            /\ faults' = IF k = 0 THEN faults + 1 ELSE faults
            /\ IF k = 0
               THEN NextStrategy
               ELSE /\ chunks_n' = k
                    /\ chunk_idx' = 0
                    /\ ing_pc' = "enqueue"
                    /\ UNCHANGED <<file_i, file_count, strat_i>>
            /\ UNCHANGED <<failed_files, skipped>>
    /\ UNCHANGED <<variant, run, all_files, limit, dry_run, chunk_count, batch,
                   collection, reported, enqueued, last_flush, flushed, result,
                   prev_enqueued, prev_collection>>
    /\ UNCHANGED <<searchVars, rerankVars, chunkVars, metaVars, collectVars, toolVars>>

\* one turn of the chunk loop (lines 179-202): build the item, append it,
\* return at the limit after a flush, flush a full batch
EnqueueChunk(env) ==
    /\ ing_pc = "enqueue"
    /\ \E kind \in (ChunkKinds(variant) \cap env.kinds) :
          LET doc_id == ChunkId(variant, CurrentFile, Strategies(variant)[strat_i],
                                chunk_idx, file_count)
              item == Item(doc_id, CurrentFile, kind)
              appended == Append(batch, item)
              spent == IF kind = "ok" THEN faults ELSE faults + 1
          IN /\ kind # "ok" => MayRaise(env)
             /\ IF SkippedBeforeEnqueue(variant, kind)
                THEN /\ faults' = spent
                     /\ NextChunkOfFile
                     /\ NoFlush
                     /\ UNCHANGED <<batch, chunk_count, enqueued, result>>
                ELSE /\ enqueued' = Append(enqueued, item)
                     /\ chunk_count' = chunk_count + 1
                     /\ IF LimitReached(limit, chunk_count + 1)
                        THEN /\ \E o \in FlushOutcomes(appended, env, spent) :
                                  /\ Flush(appended, o)
                                  /\ faults' = IF o.raised THEN spent + 1 ELSE spent
                             /\ batch' = appended
                             /\ result' = "limit"
                             /\ ing_pc' = "done"
                             /\ UNCHANGED <<file_i, file_count, strat_i, chunks_n, chunk_idx>>
                        ELSE IF BatchFull(appended)
                        THEN /\ \E o \in FlushOutcomes(appended, env, spent) :
                                  /\ Flush(appended, o)
                                  /\ faults' = IF o.raised THEN spent + 1 ELSE spent
                             /\ batch' = <<>>
                             /\ NextChunkOfFile
                             /\ UNCHANGED result
                        ELSE /\ batch' = appended
                             /\ faults' = spent
                             /\ NoFlush
                             /\ NextChunkOfFile
                             /\ UNCHANGED result
    /\ UNCHANGED <<variant, run, all_files, limit, dry_run, failed_files, skipped, produced,
                   prev_enqueued, prev_collection>>
    /\ UNCHANGED <<searchVars, rerankVars, chunkVars, metaVars, collectVars, toolVars>>

\* after the file loop: the last flush and the summary (lines 211-228)
FinishRun(env) ==
    /\ ing_pc = "file"
    /\ file_i > Len(all_files)
    /\ \E o \in FlushOutcomes(batch, env, faults) :
          /\ Flush(batch, o)
          /\ faults' = IF o.raised THEN faults + 1 ELSE faults
    /\ result' = "complete"
    /\ ing_pc' = "done"
    /\ UNCHANGED <<variant, run, all_files, limit, dry_run, file_i, strat_i, chunks_n,
                   chunk_idx, file_count, chunk_count, batch, failed_files, enqueued,
                   skipped, produced, prev_enqueued, prev_collection>>
    /\ UNCHANGED <<searchVars, rerankVars, chunkVars, metaVars, collectVars, toolVars>>

\* the script is started again on the same index
NextRun ==
    /\ ing_pc = "done"
    /\ run < MaxRuns
    /\ run' = run + 1
    /\ prev_enqueued' = enqueued
    /\ prev_collection' = collection
    /\ ing_pc' = "start"
    /\ all_files' = <<>> /\ limit' = 0 /\ dry_run' = FALSE /\ file_i' = 0
    /\ strat_i' = 0 /\ chunks_n' = 0 /\ chunk_idx' = 0 /\ file_count' = 0
    /\ chunk_count' = 0 /\ batch' = <<>> /\ failed_files' = <<>> /\ reported' = {}
    /\ faults' = 0
    /\ enqueued' = <<>> /\ last_flush' = NoFlushYet /\ result' = ""
    /\ flushed' = <<>> /\ skipped' = <<>>
    /\ UNCHANGED <<variant, collection, produced>>
    /\ UNCHANGED <<searchVars, rerankVars, chunkVars, metaVars, collectVars, toolVars>>

InitIngestIn(env) ==
    /\ variant \in env.variants
    /\ faults = 0
    /\ ing_pc = "start" /\ run = 1 /\ all_files = <<>>
    /\ limit = 0 /\ dry_run = FALSE /\ file_i = 0 /\ strat_i = 0 /\ chunks_n = 0
    /\ chunk_idx = 0 /\ file_count = 0 /\ chunk_count = 0 /\ batch = <<>>
    /\ failed_files = <<>> /\ collection = {} /\ reported = {} /\ enqueued = <<>>
    /\ last_flush = NoFlushYet /\ result = "" /\ produced = {}
    /\ flushed = <<>> /\ skipped = <<>>
    /\ prev_enqueued = <<>> /\ prev_collection = {}
    /\ SearchIdle
    /\ RerankIdle
    /\ ChunkIdle
    /\ MetaIdle
    /\ CollectIdle
    /\ ToolsIdle

\* one run of an ingestion script, with every fault and option
InitIngest == InitIngestIn(FullEnv)

NextIngest ==
    \/ StartRun(FullEnv)
    \/ ReadFile(FullEnv)
    \/ RunChunker(FullEnv)
    \/ EnqueueChunk(FullEnv)
    \/ FinishRun(FullEnv)

SpecIngest == InitIngest /\ [][NextIngest]_vars

\* two runs in a row of ingest_internal_doc.py or fixed_ingestion.py over the
\* same index, with no fault, no limit and no dry run
InitReingest == InitIngestIn(CalmEnv)

NextReingest ==
    \/ StartRun(CalmEnv)
    \/ ReadFile(CalmEnv)
    \/ RunChunker(CalmEnv)
    \/ EnqueueChunk(CalmEnv)
    \/ FinishRun(CalmEnv)
    \/ NextRun

SpecReingest == InitReingest /\ [][NextReingest]_vars

\* runs in a row of ingest_internal_doc.py or fixed_ingestion.py over the same
\* index, each with or without --dry-run and --reset-collection, with no fault
DryEnv == [faults |-> FALSE, limits |-> {0}, dry |-> BOOLEAN,
           kinds |-> {"ok"}, counts |-> 1..MaxChunks,
           variants |-> {"internal", "fixed"}, files |-> FilesUniverse,
           resets |-> BOOLEAN, budget |-> 0]

InitDryRun == InitIngestIn(DryEnv)

NextDryRun ==
    \/ StartRun(DryEnv)
    \/ ReadFile(DryEnv)
    \/ RunChunker(DryEnv)
    \/ EnqueueChunk(DryEnv)
    \/ FinishRun(DryEnv)
    \/ NextRun

SpecDryRun == InitDryRun /\ [][NextDryRun]_vars

\* one run of ingest_internal_doc.py with --include-pdf over text files and a
\* PDF, where reads and chunkers may fail
FailEnv == [faults |-> TRUE, limits |-> {0}, dry |-> {FALSE},
            kinds |-> {"ok"}, counts |-> {1},
            variants |-> {"internal"},
            files |-> {File("internal_data", "a", ".txt"), File("output", "a", ".txt"),
                       File("output", "report", ".pdf")},
            resets |-> {FALSE}, budget |-> MaxFaults + 1]

NextFailures ==
    \/ StartRun(FailEnv)
    \/ ReadFile(FailEnv)
    \/ RunChunker(FailEnv)
    \/ EnqueueChunk(FailEnv)
    \/ FinishRun(FailEnv)

InitFailures == InitIngestIn(FailEnv)

SpecFailures == InitFailures /\ [][NextFailures]_vars

(***************************************************************************)
(* The collection of the files (lines 112-128) in isolation, over a wider  *)
(* set of files and priority lists than the runs above use.                *)
(***************************************************************************)
WalkUniverse ==
    FilesUniverse \cup {File("output", "b", ".txt"), File("internal_data", "output", ".txt")}

PriorityChoices ==
    PriorityOrders \cup {<<"internal_data", "output">>, <<"archive">>}

CollectCall ==
    /\ cf_pc = "call"
    /\ cf_ret' = CollectFiles(cf_variant, cf_discovered, cf_include_pdf, cf_exclude_exts,
                              cf_priority_dirs)
    /\ cf_pc' = "returned"
    /\ UNCHANGED <<cf_variant, cf_discovered, cf_priority_dirs, cf_include_pdf,
                   cf_exclude_exts>>
    /\ UNCHANGED <<searchVars, rerankVars, chunkVars, ingestVars, metaVars, toolVars>>

InitCollect ==
    /\ cf_pc = "call"
    /\ cf_variant \in Variants
    /\ cf_discovered \in DiscoveriesIn(WalkUniverse)
    /\ cf_priority_dirs \in PriorityChoices
    /\ cf_include_pdf \in BOOLEAN
    /\ cf_exclude_exts \in {{}, {".md"}}
    /\ cf_ret = <<>>
    /\ SearchIdle
    /\ RerankIdle
    /\ ChunkIdle
    /\ IngestIdle
    /\ MetaIdle
    /\ ToolsIdle

NextCollect == CollectCall

SpecCollect == InitCollect /\ [][NextCollect]_vars

(***************************************************************************)
(* filter_chunk_quality in isolation: every short list of texts, several   *)
(* values of min_words.                                                    *)
(***************************************************************************)
MaxFiltered == 3                \* longest list given to the filter

FilterTexts == {EmptyText, 1, ShortText, BoundaryText, LegalText, CapitalLegalText}

FilterCall ==
    /\ fq_pc = "call"
    /\ fq_ret' = FilterLoop(fq_chunks, fq_min_words, 1, <<>>)
    /\ fq_twice' = FilterLoop(FilterLoop(fq_chunks, fq_min_words, 1, <<>>),
                              fq_min_words, 1, <<>>)
    /\ fq_pc' = "returned"
    /\ UNCHANGED <<fq_chunks, fq_min_words, memVars, repairVars>>
    /\ UNCHANGED <<searchVars, rerankVars, chunkVars, ingestVars, metaVars, collectVars>>

InitFilter ==
    /\ fq_pc = "call"
    /\ fq_chunks \in SeqsUpTo(FilterTexts, MaxFiltered)
    /\ fq_min_words \in {0, 10, MinWords, MinWords + 1}
    /\ fq_ret = <<>> /\ fq_twice = <<>>
    /\ SearchIdle /\ RerankIdle /\ ChunkIdle /\ IngestIdle /\ MetaIdle /\ CollectIdle
    /\ MemIdle /\ RepairIdle

NextFilter == FilterCall

SpecFilter == InitFilter /\ [][NextFilter]_vars

(***************************************************************************)
(* MemorySafeIngestion (memory_safe_ingestion.py): ingest() over a list of *)
(* chunks.  The id of chunk i is f"{doc_prefix}_{i}", modelled by i.       *)
(***************************************************************************)
MaxMemChunks == 4               \* longest list of chunks
MaxMemBatch == 3                \* largest batch_size

\* one self.collection.add(**item) call
MemAdd(id, bad) == [id |-> id, ok |-> id \notin bad]

\* lines 54-55: the adds of the try block, up to the first one that raises
RECURSIVE MemTryLoop(_, _, _)
MemTryLoop(b, bad, i) ==
    IF i > Len(b) THEN <<>>
    ELSE IF b[i] \in bad THEN <<MemAdd(b[i], bad)>>
    ELSE <<MemAdd(b[i], bad)>> \o MemTryLoop(b, bad, i + 1)

\* flush_batch (lines 52-63): the adds it makes, in order.  When an add of
\* the try block raises, the except block goes over the whole batch again.
MemFlushBatch(b, bad) ==
    IF \E i \in 1..Len(b) : b[i] \in bad
    THEN MemTryLoop(b, bad, 1) \o [i \in 1..Len(b) |-> MemAdd(b[i], bad)]
    ELSE MemTryLoop(b, bad, 1)

\* one turn of the loop of ingest (lines 33-46)
MemAppend ==
    /\ ms_pc = "loop"
    /\ ms_i < ms_n
    /\ ms_i' = ms_i + 1
    /\ IF Len(ms_batch) + 1 >= ms_size
       THEN /\ ms_adds' = ms_adds \o MemFlushBatch(Append(ms_batch, ms_i), ms_bad)
            /\ ms_batch' = <<>>
       ELSE /\ ms_batch' = Append(ms_batch, ms_i)
            /\ UNCHANGED ms_adds
    /\ UNCHANGED <<ms_pc, ms_n, ms_size, ms_bad, filterVars, repairVars>>
    /\ UNCHANGED <<searchVars, rerankVars, chunkVars, ingestVars, metaVars, collectVars>>

\* the final flush (lines 48-50)
MemFinish ==
    /\ ms_pc = "loop"
    /\ ms_i = ms_n
    /\ ms_adds' = IF ms_batch # <<>> THEN ms_adds \o MemFlushBatch(ms_batch, ms_bad)
                  ELSE ms_adds
    /\ ms_pc' = "done"
    /\ UNCHANGED <<ms_n, ms_size, ms_i, ms_batch, ms_bad, filterVars, repairVars>>
    /\ UNCHANGED <<searchVars, rerankVars, chunkVars, ingestVars, metaVars, collectVars>>

InitMem ==
    /\ ms_pc = "loop"
    /\ ms_n \in 1..MaxMemChunks
    /\ ms_size \in 1..MaxMemBatch
    /\ ms_bad \in SUBSET (0..(MaxMemChunks - 1))
    /\ \A id \in ms_bad : id < ms_n
    /\ ms_i = 0 /\ ms_batch = <<>> /\ ms_adds = <<>>
    /\ SearchIdle /\ RerankIdle /\ ChunkIdle /\ IngestIdle /\ MetaIdle /\ CollectIdle
    /\ FilterIdle /\ RepairIdle

NextMem == MemAppend \/ MemFinish

SpecMem == InitMem /\ [][NextMem]_vars

(***************************************************************************)
(* The collection repair tools: main of fixed_collection_repair.py and the *)
(* script body of fix_collection.py.                                       *)
(***************************************************************************)
MaxContent == 2                 \* distinct contents an existing chroma_db can have

RepairTools == {"fixed_collection_repair", "fix_collection"}

\* what a failed shutil.rmtree can leave of a directory
Damaged(dir) == Dir(TRUE, dir.of, FALSE)

\* the target of shutil.copytree(dir, target), finished or not
CopyOf(dir, complete) == Dir(TRUE, dir.of, complete /\ dir.complete)

RepairUnchanged == UNCHANGED <<filterVars, memVars>>
                   /\ UNCHANGED <<searchVars, rerankVars, chunkVars, ingestVars, metaVars, collectVars>>

\* the steps that can end the run before anything is removed: the question
\* of fixed_collection_repair.py and its steps 1-2 (lines 248-261), the
\* question of fix_collection.py, put after its backup (lines 115-118)
RepairProceed ==
    /\ rp_pc = "confirm"
    /\ \/ rp_pc' = "done"
       \/ rp_pc' = IF rp_tool = "fixed_collection_repair" THEN "backup" ELSE "clean"
    /\ UNCHANGED <<rp_tool, rp_live, rp_backup, rp_backed_up, rp_at_removal>>
    /\ RepairUnchanged

\* backup_collection and what the caller does with its result
\*   fixed_collection_repair.py 96-121, 264-265: no chroma_db returns True;
\*     a failed backup is printed and the run proceeds
\*   fix_collection.py 16-27, 109-111: copytree of a missing chroma_db raises;
\*     a failed backup ends the run
BackupCollection ==
    /\ rp_pc = "backup"
    /\ \/ /\ rp_live = Absent
          /\ rp_tool = "fixed_collection_repair"
          /\ rp_backed_up' = TRUE
          /\ UNCHANGED rp_backup
       \/ /\ rp_live = Absent
          /\ rp_tool = "fix_collection"
          /\ rp_backed_up' = FALSE
          /\ rp_backup' = Absent                     \* the old backup is removed first
       \/ /\ rp_live # Absent                        \* rmtree and copytree succeed
          /\ rp_backed_up' = TRUE
          /\ rp_backup' = CopyOf(rp_live, TRUE)
       \/ /\ rp_live # Absent                        \* rmtree of the old backup raises
          /\ rp_backup # Absent
          /\ rp_backed_up' = FALSE
          /\ rp_backup' \in {rp_backup, Damaged(rp_backup)}
       \/ /\ rp_live # Absent                        \* copytree raises
          /\ rp_backed_up' = FALSE
          /\ rp_backup' \in {Absent, CopyOf(rp_live, FALSE)}
    /\ rp_pc' = IF rp_tool = "fixed_collection_repair" THEN "clean"
                ELSE IF rp_backed_up' THEN "confirm" ELSE "done"
    /\ UNCHANGED <<rp_tool, rp_live, rp_at_removal>>
    /\ RepairUnchanged

\* clean_collection (fixed_collection_repair.py 123-140, 268-270) and
\* nuke_and_rebuild (fix_collection.py 29-44): shutil.rmtree of chroma_db
CleanCollection ==
    /\ rp_pc = "clean"
    /\ \/ /\ rp_live = Absent
          /\ rp_pc' = "ingest"
          /\ UNCHANGED <<rp_live, rp_at_removal>>
       \/ /\ rp_live # Absent                        \* rmtree succeeds
          /\ rp_live' = Absent
          /\ rp_at_removal' = <<[live |-> rp_live, backup |-> rp_backup,
                                 backed_up |-> rp_backed_up]>>
          /\ rp_pc' = "ingest"
       \/ /\ rp_live # Absent                        \* rmtree raises
          /\ rp_live' \in {rp_live, Damaged(rp_live)}
          /\ rp_pc' = "done"
          /\ UNCHANGED rp_at_removal
    /\ UNCHANGED <<rp_tool, rp_backup, rp_backed_up>>
    /\ RepairUnchanged

\* the re-ingestion and its verification (fixed_collection_repair.py 272-285,
\* fix_collection.py 122-135): a fresh index, or none when the script fails
RepairIngest ==
    /\ rp_pc = "ingest"
    /\ rp_live' \in {Absent, Dir(TRUE, 0, TRUE)}
    /\ rp_pc' = "done"
    /\ UNCHANGED <<rp_tool, rp_backup, rp_backed_up, rp_at_removal>>
    /\ RepairUnchanged

InitRepair ==
    /\ rp_tool \in RepairTools
    /\ rp_pc = IF rp_tool = "fixed_collection_repair" THEN "confirm" ELSE "backup"
    /\ rp_live \in {Absent} \cup {Dir(TRUE, c, TRUE) : c \in 1..MaxContent}
    /\ rp_backup \in {Absent} \cup {Dir(TRUE, c, TRUE) : c \in 1..MaxContent}
    /\ rp_backed_up = FALSE
    /\ rp_at_removal = <<>>
    /\ SearchIdle /\ RerankIdle /\ ChunkIdle /\ IngestIdle /\ MetaIdle /\ CollectIdle
    /\ FilterIdle /\ MemIdle

NextRepair == RepairProceed \/ BackupCollection \/ CleanCollection \/ RepairIngest

SpecRepair == InitRepair /\ [][NextRepair]_vars

(***************************************************************************)
(* Chunk metadata.  A document is seen through what the strategies look    *)
(* at: the names on its Company_Names tag lines (in text order), the       *)
(* company names its text mentions, and, for every chunk of its body, the  *)
(* classification keywords that occur in the chunk.                        *)
(***************************************************************************)
MaxTags == 2                    \* most names on the tag lines of a document
MaxDocChunks == 2               \* most chunks of a document

CompanyNames == {"Tenable", "tenable", "Nessus"}

MentionNames == {"Microsoft", "Cisco"}

\* normalize_company_name (company_tagging_chunker.py 34-39): lower case,
\* punctuation removed, blanks to "_"
normalize_company_name(name) == IF name = "Nessus" THEN "nessus" ELSE "tenable"

\* the keyword families of the classification: 'price' stands for the
\* pricing terms both lists have, 'subscription' for the one only chunker.py
\* has, 'feature' and 'versus' for the features and comparison terms
ChunkTerms == (SUBSET {"price", "feature", "versus"}) \cup {{"subscription"}}

Documents ==
    [tags : SeqsUpTo(CompanyNames, MaxTags),
     mentions : SUBSET MentionNames,
     chunks : SeqsUpTo(ChunkTerms, MaxDocChunks)]

\* a metadata value: a scalar or a list
Scalar(x) == [list |-> FALSE, v |-> x]
ListOf(items) == [list |-> TRUE, v |-> items]

\* the if/elif chain of the classification, on the terms that occur
ContentType(terms, pricing_terms) ==
    IF terms \cap pricing_terms # {} THEN "pricing"
    ELSE IF "feature" \in terms THEN "features"
    ELSE IF "versus" \in terms THEN "competitive"
    ELSE "general"

\* the value of the content_type key: base, or base_suffix
TypeValue(base, suffix) == Scalar([base |-> base, suffix |-> suffix])

\* the terms that occur in the whole text
DocTerms(doc) == UNION {doc.chunks[i] : i \in 1..Len(doc.chunks)}

\* chunk_text_smart on the whole text: the tag lines are part of it
FullTextChunks(doc) ==
    IF doc.chunks = <<>> /\ doc.tags # <<>> THEN <<{}>> ELSE doc.chunks

\* extract_metadata_from_content (chunker.py 83-125).  mention_order is
\* list(companies): the iteration order of a set of strings.  The optional
\* boolean likely_boilerplate is left out.
extract_metadata_from_content(doc, filename, mention_order) ==
    LET fixed_keys ==
            ("source" :> Scalar(filename))
            @@ ("content_type" :>
                   TypeValue(ContentType(DocTerms(doc), {"price", "subscription"}), ""))
            @@ ("word_count" :> Scalar("len(text.split())"))
    IN IF doc.mentions # {}
       THEN fixed_keys @@ ("mentioned_companies" :> ListOf(Take(mention_order, 5)))
       ELSE fixed_keys

ChunkerRet(raised, items) == [raised |-> raised, items |-> items]

\* chunk_text_with_metadata (chunker.py 127-150)
chunk_text_with_metadata(doc, filename, mention_order) ==
    LET doc_metadata == extract_metadata_from_content(doc, filename, mention_order)
        chunks == FullTextChunks(doc)
    IN ChunkerRet(FALSE,
           [i \in 1..Len(chunks) |->
               ("chunk_index" :> Scalar(i - 1))
               @@ ("total_chunks" :> Scalar(Len(chunks)))
               @@ ("chunk_word_count" :> Scalar("len(chunk.split())"))
               @@ doc_metadata])

\* DefaultChunker.chunk (metadata_chunker.py 18-31): the list is built in
\* result and the method ends in "return results", a name that is not
\* defined: NameError on every call
DefaultChunkerChunk(doc, filename, mention_order) == ChunkerRet(TRUE, <<>>)

\* parse_company_tags (company_tagging_chunker.py 4-32): company_tags is a
\* set; the cleaned text is the body
parse_company_tags(doc) ==
    [cleaned |-> doc.chunks, company_tags |-> {doc.tags[i] : i \in 1..Len(doc.tags)}]

\* metadata_chunker.py 61-72: the classification of the chunk, then the
\* suffix of the primary company
CompanyContentType(terms, primary_company) ==
    TypeValue(ContentType(terms, {"price"}),
              IF primary_company # "" THEN normalize_company_name(primary_company) ELSE "")

\* CompanyChunker.chunk (metadata_chunker.py 33-76).  all_companies is
\* list(company_tags): the iteration order of a set of strings.
CompanyChunkerChunk(doc, filename, all_companies) ==
    LET parsed == parse_company_tags(doc)
        chunks == parsed.cleaned
        primary_company == IF parsed.company_tags # {} THEN all_companies[1] ELSE ""
        company_keys ==
            ("primary_company" :> Scalar(primary_company))
            @@ ("all_companies" :> ListOf(all_companies))
            @@ ("company_normalized" :> Scalar(normalize_company_name(primary_company)))
            @@ ("company_aliases" :>
                   ListOf([j \in 1..Len(all_companies) |->
                              normalize_company_name(all_companies[j])]))
    IN ChunkerRet(FALSE,
           [i \in 1..Len(chunks) |->
               LET metadata ==
                       ("source" :> Scalar(filename))
                       @@ ("chunk_index" :> Scalar(i - 1))
                       @@ ("total_chunks" :> Scalar(Len(chunks)))
                       @@ ("chunk_word_count" :> Scalar("len(chunk.split())"))
                       @@ ("content_type" :> CompanyContentType(chunks[i], primary_company))
               IN IF parsed.company_tags # {} THEN metadata @@ company_keys ELSE metadata])

\* chunk_text_with_company_context (company_tagging_chunker.py 41-105): the
\* same statements as CompanyChunker.chunk
chunk_text_with_company_context(doc, filename, all_companies) ==
    CompanyChunkerChunk(doc, filename, all_companies)

\* what a caller handed to the commit queue
Handed(aborted, companies, items) ==
    [raised |-> FALSE, aborted |-> aborted, companies |-> companies, items |-> items]

\* run_all_chunkers (ingestion_driver_update.py 4-21): the chunks of
\* DefaultChunker, then those of CompanyChunker; a chunker that raises is
\* reported and skipped
run_all_chunkers(doc, filename, all_companies, mention_order) ==
    LET first == DefaultChunkerChunk(doc, filename, mention_order)
        second == CompanyChunkerChunk(doc, filename, all_companies)
    IN (IF first.raised THEN <<>> ELSE first.items)
       \o (IF second.raised THEN <<>> ELSE second.items)

\* ingest_internal_doc.py 160-189: {**base_metadata, **chunk_metadata}
InternalItems(doc, filename, mention_order) ==
    LET base_metadata ==
            ("source" :> Scalar(filename))
            @@ ("full_path" :> Scalar("filepath"))
            @@ ("directory" :> Scalar("dirname"))
            @@ ("priority" :> Scalar("priority"))
            @@ ("file_size" :> Scalar("st_size"))
            @@ ("modified_time" :> Scalar("st_mtime"))
            @@ ("ingestion_time" :> Scalar("now"))
            @@ ("file_type" :> Scalar("text"))
        chunks_with_metadata == chunk_text_with_metadata(doc, filename, mention_order).items
    IN [i \in 1..Len(chunks_with_metadata) |-> chunks_with_metadata[i] @@ base_metadata]

Pipelines == {"internal", "fixed", "driver", "company_context"}

\* one document through one caller
\*   internal: ingest_internal_doc.py 173-189
\*   fixed: fixed_ingestion.py 142-149 builds each chunker with file=...,
\*     a keyword MetadataChunker.__init__ does not take: TypeError, caught
\*     at line 176, the file is given up with nothing enqueued
\*   driver: run_all_chunkers
\*   company_context: chunk_text_with_company_context
RunPipeline(pipeline, doc, filename, all_companies, mention_order) ==
    IF pipeline = "internal"
    THEN Handed(FALSE, <<>>, InternalItems(doc, filename, mention_order))
    ELSE IF pipeline = "fixed"
    THEN Handed(TRUE, <<>>, <<>>)
    ELSE IF pipeline = "driver"
    THEN Handed(FALSE, all_companies,
                run_all_chunkers(doc, filename, all_companies, mention_order))
    ELSE Handed(FALSE, all_companies,
                chunk_text_with_company_context(doc, filename, all_companies).items)

\* a run over the document
MetaRun ==
    /\ md_pc = "call"
    /\ \E all_companies \in Orders(parse_company_tags(md_doc).company_tags),
          mention_order \in Orders(md_doc.mentions) :
          md_out' = RunPipeline(md_pipeline, md_doc, "a.txt", all_companies, mention_order)
    /\ md_pc' = "ran"
    /\ UNCHANGED <<md_doc, md_pipeline, md_again>>
    /\ UNCHANGED <<searchVars, rerankVars, chunkVars, ingestVars, collectVars, toolVars>>

\* a second run over the same text, in a new interpreter process
MetaRerun ==
    /\ md_pc = "ran"
    /\ \E all_companies \in Orders(parse_company_tags(md_doc).company_tags),
          mention_order \in Orders(md_doc.mentions) :
          md_again' = RunPipeline(md_pipeline, md_doc, "a.txt", all_companies, mention_order)
    /\ md_pc' = "reran"
    /\ UNCHANGED <<md_doc, md_pipeline, md_out>>
    /\ UNCHANGED <<searchVars, rerankVars, chunkVars, ingestVars, collectVars, toolVars>>

InitMeta ==
    /\ md_pc = "call"
    /\ md_doc \in Documents
    /\ md_pipeline \in Pipelines
    /\ md_out = NoItems
    /\ md_again = NoItems
    /\ SearchIdle
    /\ RerankIdle
    /\ ChunkIdle
    /\ IngestIdle
    /\ CollectIdle
    /\ ToolsIdle

NextMeta ==
    \/ MetaRun
    \/ MetaRerun

SpecMeta == InitMeta /\ [][NextMeta]_vars

(***************************************************************************)
(* ask_enhanced: one request.  The backends and the oracle are external;   *)
(* each call to one of them is a step whose answer is chosen here.         *)
(***************************************************************************)
Modes == {"semantic", "keyword", "hybrid", "full"}

\* n consecutive good texts starting at text a, wrapping around after NGood:
\* a list longer than NGood repeats texts (the same text stored under two ids)
Run(a, n) == [i \in 1..n |-> ((a + i - 2) % NGood) + 1]

LowQuality == <<ShortText, LegalText, EmptyText>>

\* collection.query(n_results=10): at most 10 hits
SemanticHits ==
    {Take(pre \o Run(1, n), SemNResults) : pre \in {<<>>, LowQuality}, n \in 0..SemNResults}

\* searcher.search(limit=5): at most 5 hits
KeywordHits ==
    {Take(pre \o Run(b, m), KeyNResults) :
        pre \in {<<>>, <<ShortText>>}, b \in GoodTexts, m \in 0..KeyNResults}

\* oracle answers offered to a rerank of n candidates inside a request
RequestOracle(n) ==
    {OracleRaise,
     OracleSays(<<JunkTok>>),
     OracleSays(<<SupTok, IntTok(0)>>),
     OracleSays(<<IntTok(n), IntTok(n + 1)>>),
     OracleSays(<<IntTok(0), IntTok(0), IntTok(1)>>),
     OracleSays(<<JunkTok, IntTok(n - 1), IntTok(1)>>),
     OracleSays([i \in 1..n |-> IntTok(n - i)]),
     OracleSays([i \in 1..n |-> IntTok(i - 1)])}

\* lines 173-178: combine and deduplicate
RECURSIVE CombineLoop(_, _, _, _)
CombineLoop(docs, i, acc, seen) ==
    IF i > Len(docs) THEN acc
    ELSE IF docs[i] # EmptyText /\ docs[i] \notin seen
         THEN CombineLoop(docs, i + 1, Append(acc, docs[i]), seen \cup {docs[i]})
         ELSE CombineLoop(docs, i + 1, acc, seen)

\* mutant: the two lists concatenated, later occurrences kept
HybridCombineKeepAll(sem, key) == sem \o key

HybridCombine(sem, key) == CombineLoop(sem \o key, 1, <<>>, {})

\* the except clause of ask_enhanced (line 228): the request ends with an error string
Fail ==
    /\ outcome' = "error"
    /\ pc' = "done"

\* an early "No relevant ... documents found" return
NoDocs ==
    /\ outcome' = "no_docs"
    /\ pc' = "done"

\* After search_semantic_enhanced returned docs: the rest of the semantic branch
\* (lines 156-159), or on to the keyword call of the hybrid branch (line 170).
AfterSemantic(docs) ==
    /\ sem_docs' = docs
    /\ IF mode = "hybrid"
       THEN /\ pc' = "keyword"
            /\ UNCHANGED <<context, outcome>>
       ELSE IF docs = <<>>
            THEN NoDocs /\ UNCHANGED context
            ELSE /\ context' = docs
                 /\ pc' = "prompt"
                 /\ UNCHANGED outcome

\* search_semantic_enhanced up to its rerank (lines 107-127): the vector query,
\* the quality filter, and the reranks that need no oracle call
SemanticQuery ==
    /\ pc = "start"
    /\ mode \in {"semantic", "hybrid"}
    /\ \/ /\ sem_raised' = TRUE                      \* collection.query raises
          /\ Fail
          /\ UNCHANGED <<quality_chunks, sem_docs, context>>
       \/ \E chunks \in SemanticHits :
            /\ sem_raised' = FALSE
            /\ IF chunks = <<>>
               THEN /\ quality_chunks' = <<>>
                    /\ AfterSemantic(<<>>)
               ELSE LET quality == filter_chunk_quality(chunks)
                    IN /\ quality_chunks' = quality
                       /\ IF use_reranking /\ quality # <<>> /\ Len(quality) > SemTopK
                          THEN /\ pc' = "sem_rerank"
                               /\ UNCHANGED <<sem_docs, context, outcome>>
                          ELSE AfterSemantic(quality)
    /\ UNCHANGED <<mode, use_reranking, key_docs, fused, all_docs, rerank_calls,
                   key_raised, rerankVars, chunkVars, ingestVars, metaVars, collectVars, toolVars>>

\* the oracle call of search_semantic_enhanced's rerank (line 127)
SemanticRerank ==
    /\ pc = "sem_rerank"
    /\ \E o \in RequestOracle(Len(quality_chunks)) :
          LET r == llm_rerank_chunks(quality_chunks, SemTopK, o)
          IN /\ rerank_calls' = rerank_calls + r.calls
             /\ IF r.raised
                THEN Fail /\ UNCHANGED <<sem_docs, context>>
                ELSE AfterSemantic(r.out)
    /\ UNCHANGED <<mode, use_reranking, quality_chunks, key_docs, fused, all_docs,
                   sem_raised, key_raised, rerankVars, chunkVars, ingestVars, metaVars, collectVars, toolVars>>

\* search_keyword_enhanced (lines 131-149) and what follows it: the keyword
\* branch (lines 163-166) or the hybrid combine (lines 172-188)
KeywordQuery ==
    /\ \/ pc = "start" /\ mode = "keyword"
       \/ pc = "keyword"
    /\ \/ /\ key_raised' = TRUE                      \* the Whoosh search raises
          /\ Fail
          /\ UNCHANGED <<key_docs, fused, all_docs, context>>
       \/ \E hits \in KeywordHits :
            LET docs == filter_chunk_quality(hits)
            IN /\ key_raised' = FALSE
               /\ key_docs' = docs
               /\ IF mode = "keyword"
                  THEN /\ UNCHANGED <<fused, all_docs>>
                       /\ IF docs = <<>>
                          THEN NoDocs /\ UNCHANGED context
                          ELSE /\ context' = docs
                               /\ pc' = "prompt"
                               /\ UNCHANGED outcome
                  ELSE LET combined == HybridCombine(sem_docs, docs)
                       IN /\ fused' = combined
                          /\ all_docs' = combined
                          /\ IF combined = <<>>
                             THEN NoDocs /\ UNCHANGED context
                             ELSE IF Len(combined) > HybridCap
                                  THEN /\ pc' = "hyb_rerank"
                                       /\ UNCHANGED <<context, outcome>>
                                  ELSE /\ context' = combined
                                       /\ pc' = "prompt"
                                       /\ UNCHANGED outcome
    /\ UNCHANGED <<mode, use_reranking, quality_chunks, sem_docs, rerank_calls,
                   sem_raised, rerankVars, chunkVars, ingestVars, metaVars, collectVars, toolVars>>

\* the oracle call of the hybrid branch's rerank (line 185)
HybridRerank ==
    /\ pc = "hyb_rerank"
    /\ \E o \in RequestOracle(Len(all_docs)) :
          LET r == llm_rerank_chunks(all_docs, HybridCap, o)
          IN /\ rerank_calls' = rerank_calls + r.calls
             /\ IF r.raised
                THEN Fail /\ UNCHANGED <<all_docs, context>>
                ELSE /\ all_docs' = r.out
                     /\ context' = r.out
                     /\ pc' = "prompt"
                     /\ UNCHANGED outcome
    /\ UNCHANGED <<mode, use_reranking, quality_chunks, sem_docs, key_docs, fused,
                   sem_raised, key_raised, rerankVars, chunkVars, ingestVars, metaVars, collectVars, toolVars>>

\* mode == "full": the pre-built context file, read verbatim (lines 190-195)
FullContextDoc == <<NGood + 3>>

FullContext ==
    /\ pc = "start"
    /\ mode = "full"
    /\ \/ /\ outcome' = "error"                      \* read_text raises
          /\ pc' = "done"
          /\ UNCHANGED context
       \/ /\ context' = FullContextDoc
          /\ pc' = "prompt"
          /\ UNCHANGED outcome
    /\ UNCHANGED <<mode, use_reranking, quality_chunks, sem_docs, key_docs, fused,
                   all_docs, rerank_calls, sem_raised, key_raised, rerankVars, chunkVars, ingestVars, metaVars, collectVars, toolVars>>

\* the final prompt and the generation call (lines 201-226)
Generate ==
    /\ pc = "prompt"
    /\ \/ Fail                                       \* query_ollama raises
       \/ /\ outcome' = "answer"
          /\ pc' = "done"
    /\ UNCHANGED <<mode, use_reranking, quality_chunks, sem_docs, key_docs, fused,
                   all_docs, context, rerank_calls, sem_raised, key_raised, rerankVars, chunkVars, ingestVars, metaVars, collectVars, toolVars>>

InitSearch ==
    /\ mode \in Modes
    /\ use_reranking \in BOOLEAN
    /\ pc = "start"
    /\ quality_chunks = <<>> /\ sem_docs = <<>> /\ key_docs = <<>>
    /\ fused = <<>> /\ all_docs = <<>> /\ context = <<>>
    /\ outcome = "pending" /\ rerank_calls = 0
    /\ sem_raised = FALSE /\ key_raised = FALSE
    /\ RerankIdle
    /\ ChunkIdle
    /\ IngestIdle
    /\ MetaIdle
    /\ CollectIdle
    /\ ToolsIdle

NextSearch ==
    \/ SemanticQuery
    \/ SemanticRerank
    \/ KeywordQuery
    \/ HybridRerank
    \/ FullContext
    \/ Generate

SpecSearch == InitSearch /\ [][NextSearch]_vars

InitRerank ==
    /\ rr_pc = "call"
    /\ rr_chunks \in SeqsUpTo(1..NCandTexts, MaxCand)
    /\ rr_top_k \in 0..MaxTopK
    /\ rr_oracle = OracleNotAsked
    /\ rr_ret = NoRet
    /\ SearchIdle
    /\ ChunkIdle
    /\ IngestIdle
    /\ MetaIdle
    /\ CollectIdle
    /\ ToolsIdle

NextRerank == RerankCall

SpecRerank == InitRerank /\ [][NextRerank]_vars

(***************************************************************************)
(* Claims about ask_enhanced (SpecSearch).                                 *)
(***************************************************************************)
\* the hybrid branch has run its combine loop
FusedComputed ==
    /\ mode = "hybrid"
    /\ pc \in {"hyb_rerank", "prompt", "done"}
    /\ ~sem_raised /\ ~key_raised

\* C4: in hybrid mode the fused list is the semantic results followed by the
\* keyword results with every later occurrence of an already-seen text removed:
\* no text twice, every text of either list present, in first-seen order; and
\* semantic [A,B,C] with keyword [B,D] fuses to [A,B,C,D].
C4_FusedFirstSeenOrder ==
    /\ HybridCombine(<<1, 2, 3>>, <<2, 4>>) = <<1, 2, 3, 4>>
    /\ FusedComputed =>
         LET cat == sem_docs \o key_docs
         IN /\ NoDuplicates(fused)
            /\ Elems(fused) = Elems(cat)
            /\ \A i, j \in 1..Len(fused) :
                  i < j => FirstIndex(cat, fused[i]) < FirstIndex(cat, fused[j])

\* C4 witness: a fusion where the keyword list repeats a semantic text and
\* also brings a new one
C4_Witness ==
    /\ FusedComputed
    /\ Len(sem_docs) >= 3
    /\ \E t \in Elems(key_docs) : t \in Elems(sem_docs)
    /\ \E t \in Elems(key_docs) : t \notin Elems(sem_docs)
    /\ Len(fused) < Len(sem_docs) + Len(key_docs)

\* C5: in hybrid mode no candidate is cut from the pool before reranking: every
\* quality-passing hit of the semantic backend and of the keyword backend is in
\* the deduplicated pool that the hybrid rerank/truncation works on.
C5_NoCutBeforeHybridRerank ==
    FusedComputed =>
        (Elems(quality_chunks) \cup Elems(key_docs)) \subseteq Elems(fused)

\* C6: in hybrid mode, when exactly one backend call raised, the request still
\* ends with a context built from the other backend's results (or with the
\* "no documents" outcome when the other backend returned nothing).
C6_HybridContinuesAfterBackendFailure ==
    (mode = "hybrid" /\ pc = "done" /\ sem_raised # key_raised) =>
        \/ outcome = "no_docs"
        \/ /\ context # <<>>
           /\ Elems(context) \subseteq
                 (IF sem_raised THEN Elems(key_docs) ELSE Elems(sem_docs))

\* the chunks in retrieval order, as the request's mode retrieved them
RetrievalOrder ==
    IF mode = "semantic" THEN quality_chunks
    ELSE IF mode = "keyword" THEN key_docs
    ELSE fused

\* C9: with the reranking flag off the oracle is never called for reranking and
\* the chunks put in the context keep their retrieval order, in semantic,
\* keyword and hybrid mode.
C9_FlagOffNeverReranks ==
    (~use_reranking /\ mode \in {"semantic", "keyword", "hybrid"}) =>
        /\ rerank_calls = 0
        /\ (pc \in {"prompt", "done"} /\ context # <<>>) => context = RetrievalOrder

(***************************************************************************)
(* Claims about llm_rerank_chunks (SpecRerank).                            *)
(***************************************************************************)
\* C7: llm_rerank_chunks returns an ordered subset of the candidates of size at
\* most top_k: every returned element is the candidate at a returned position
\* and no candidate position is returned more than once.
C7_RerankReturnsSubset ==
    rr_pc = "returned" =>
        /\ Len(rr_ret.out) <= rr_top_k
        /\ Len(rr_ret.picked) = Len(rr_ret.out)
        /\ \A i \in 1..Len(rr_ret.out) :
              /\ rr_ret.picked[i] \in 0..(Len(rr_chunks) - 1)
              /\ rr_ret.out[i] = rr_chunks[rr_ret.picked[i] + 1]
        /\ NoDuplicates(rr_ret.picked)

\* the oracle gave nothing usable for n candidates: its call raised, or no
\* token of its response is an integer in 0..n-1
NoUsableIndex(o, n) ==
    \/ o.raises
    \/ \A i \in 1..Len(o.tokens) : ~(o.tokens[i].k = "int" /\ o.tokens[i].v < n)

\* C8: with more than top_k candidates and no usable index from the oracle,
\* llm_rerank_chunks returns the first top_k candidates in their original
\* order, has called the oracle at most once and lets no exception escape.
C8_RerankFallback ==
    (rr_pc = "returned" /\ Len(rr_chunks) > rr_top_k
        /\ NoUsableIndex(rr_oracle, Len(rr_chunks))) =>
        /\ rr_ret.out = SubSeq(rr_chunks, 1, rr_top_k)
        /\ rr_ret.calls <= 1
        /\ ~rr_ret.raised

\* C8 witness: a response of out-of-range numbers only, with something to cut
C8_Witness ==
    /\ rr_pc = "returned"
    /\ rr_top_k >= 1
    /\ Len(rr_chunks) > rr_top_k
    /\ ~rr_oracle.raises
    /\ \A i \in 1..Len(rr_oracle.tokens) :
          rr_oracle.tokens[i].k = "int" /\ rr_oracle.tokens[i].v >= Len(rr_chunks)
    /\ rr_ret.calls = 1

(***************************************************************************)
(* Claims about the chunker (SpecChunk).                                   *)
(***************************************************************************)
\* a word-mode split with overlap < chunk_size has returned
WordModeReturned ==
    /\ ck_pc = "returned"
    /\ ~ck_preserve
    /\ ck_overlap < ck_chunk_size

\* the word-mode windows: one per start 0, s, 2s, ... below the word count,
\* the window at start p holding the words p .. p+chunk_size-1 cut at the end
WordWindowsAsClaimed ==
    LET s == ck_chunk_size - ck_overlap
        n == Len(ck_words)
        chunks == ck_ret.chunks
    IN /\ ~ck_ret.raised
       /\ Len(chunks) = (n + s - 1) \div s
       /\ \A k \in 1..Len(chunks) :
             chunks[k] = SubSeq(ck_words, (k - 1) * s + 1, Min((k - 1) * s + ck_chunk_size, n))

WordWindowExample ==
    ChunkByWords(<<1, 2, 3, 4, 5, 6, 7, 8, 9, 10>>, 4, 1).chunks
        = << <<1, 2, 3, 4>>, <<4, 5, 6, 7>>, <<7, 8, 9, 10>>, <<10>> >>

FallbackVariant == variant \in {"internal", "fixed"}

\* C1: when the multi-item add of flush_batch raises, every item of that
\* batch is then added on its own: each item whose individual add succeeds
\* is committed to the index, wherever the failing items stand in the batch
\* and however many they are, and each item whose individual add fails is
\* reported by its identifier.
C1_FallbackCommitsAndReports ==
    (FallbackVariant /\ last_flush.raised) =>
        \A i \in 1..Len(last_flush.batch) :
            IF i \in last_flush.failed
            THEN last_flush.batch[i].id \in reported
            ELSE last_flush.batch[i].id \in CommittedIds(collection)

\* a flush whose batch add raised, whose first item failed on its own and
\* whose second item went in
C1_Witness ==
    /\ FallbackVariant
    /\ last_flush.raised
    /\ Len(last_flush.batch) >= 2
    /\ 1 \in last_flush.failed
    /\ 2 \notin last_flush.failed
    /\ last_flush.batch[1].id \in reported
    /\ last_flush.batch[2].id \in CommittedIds(collection)
    /\ last_flush.batch[1].id \notin CommittedIds(collection)

IdsOf(items, f) == {items[i].id : i \in {j \in 1..Len(items) : items[j].file = f}}

ChunksOf(coll, f) == {c \in coll : c.file = f}

\* C2: a document ingested in two runs in a row, with unchanged content and
\* the same strategies, gets the same chunk identifiers in both runs, and
\* the index holds as many chunks of it after the second run as after the
\* first.
C2_ReingestSameIdsSameCount ==
    (run >= 2 /\ ing_pc = "done") =>
        \A f \in FilesUniverse :
            (IdsOf(prev_enqueued, f) # {} /\ IdsOf(enqueued, f) # {}) =>
                /\ IdsOf(enqueued, f) = IdsOf(prev_enqueued, f)
                /\ Cardinality(ChunksOf(collection, f)) =
                       Cardinality(ChunksOf(prev_collection, f))

\* C3: within one run no two items enqueued for commit carry the same
\* identifier, whatever the admitted files and the strategies.
C3_EnqueuedIdsUnique ==
    \A i, j \in 1..Len(enqueued) : i # j => enqueued[i].id # enqueued[j].id


(***************************************************************************)
(* Further claims about chunk_text_smart                                   *)
(***************************************************************************)
SplitReturned == ck_pc = "returned" /\ ck_words # <<>>

\* C11: a non-blank text of fewer than chunk_size words, split with an
\* overlap below chunk_size, gives exactly one chunk, holding all the words
\* of the text, in word mode and in sentence-preserving mode.
C11_ShortTextOneChunk ==
    (SplitReturned /\ Len(ck_words) < ck_chunk_size /\ ck_overlap < ck_chunk_size) =>
        /\ ~ck_ret.raised
        /\ ck_ret.chunks = <<ck_words>>

\* the chunk is the words of some run of consecutive whole sentences
WholeSentences(chunk, sentences) ==
    \E a, b \in 1..Len(sentences) :
        a <= b /\ chunk = JoinSentences(SubSeq(sentences, a, b))

\* C12: in sentence-preserving mode every chunk is a concatenation of whole
\* sentences, and a sentence of more than chunk_size words is emitted as its
\* own chunk: the chunk that holds it holds no other sentence.
C12_SentencesWholeLongOnesAlone ==
    (SplitReturned /\ ck_preserve /\ ck_overlap < ck_chunk_size) =>
        LET sentences == Sentences(ck_words)
            chunks == ck_ret.chunks
        IN /\ \A k \in 1..Len(chunks) : WholeSentences(chunks[k], sentences)
           /\ \A i \in 1..Len(sentences) :
                 Len(sentences[i]) > ck_chunk_size =>
                     \A k \in 1..Len(chunks) :
                         (\E w \in 1..Len(chunks[k]) : chunks[k][w] = sentences[i][1])
                             => chunks[k] = sentences[i]

\* C13: a word-mode split of a non-blank text with overlap >= chunk_size
\* (equal or greater) is rejected with an error; it never returns a chunk
\* list.
C13_OverlapNotBelowSizeRejected ==
    (SplitReturned /\ ~ck_preserve /\ ck_overlap >= ck_chunk_size) => ck_ret.raised


(***************************************************************************)
(* Claims about chunk metadata                                             *)
(***************************************************************************)
MetaDone == md_pc \in {"ran", "reran"}

CompanyPipeline == md_pipeline \in {"driver", "company_context"}

\* the names of a list in the order of their first occurrence
RECURSIVE FirstSeen(_, _)
FirstSeen(names, kept) ==
    IF names = <<>> THEN kept
    ELSE FirstSeen(Tail(names),
                   IF \E i \in 1..Len(kept) : kept[i] = Head(names)
                   THEN kept ELSE Append(kept, Head(names)))

PrimaryIs(out, name) ==
    \A i \in 1..Len(out.items) : out.items[i]["primary_company"].v = name

\* C14: the company names parsed from the tag lines of a document are kept
\* in the order of their first occurrence, without duplicates; the primary
\* company attached to every chunk is the first name listed; two parses of
\* the same text give the same order and the same primary company.
C14_CompaniesInListedOrder ==
    (MetaDone /\ CompanyPipeline /\ md_doc.tags # <<>> /\ md_doc.chunks # <<>>) =>
        /\ md_out.companies = FirstSeen(md_doc.tags, <<>>)
        /\ PrimaryIs(md_out, md_doc.tags[1])
        /\ md_pc = "reran" =>
              /\ md_again.companies = md_out.companies
              /\ PrimaryIs(md_again, md_doc.tags[1])

\* C15: for every admitted document with a non-blank body, running all the
\* strategies hands the commit queue the chunks of the Default strategy and
\* the chunks of the CompanyAware strategy: one item per chunk of each.
C15_BothStrategiesContribute ==
    (MetaDone /\ md_pipeline \in {"driver", "fixed"} /\ md_doc.chunks # <<>>) =>
        /\ ~md_out.aborted
        /\ Len(md_out.items) =
               Len(FullTextChunks(md_doc)) + Len(parse_company_tags(md_doc).cleaned)

RequiredKeys == {"source", "chunk_index", "total_chunks", "word_count", "content_type"}

\* C16: every item handed to the commit queue has metadata with all the
\* required keys source, chunk_index, total_chunks, word_count and
\* content_type, under every strategy.
C16_RequiredKeysPresent ==
    MetaDone =>
        \A i \in 1..Len(md_out.items) : RequiredKeys \subseteq DOMAIN md_out.items[i]

\* C17: every metadata value handed to the index by ingest_internal_doc.py
\* and fixed_ingestion.py is a scalar: the list-valued entries of a strategy
\* are flattened before the item is enqueued.
C17_MetadataValuesScalar ==
    (MetaDone /\ md_pipeline \in {"internal", "fixed"}) =>
        \A i \in 1..Len(md_out.items) :
            \A k \in DOMAIN md_out.items[i] : ~md_out.items[i][k].list

\* the chunks the items of a caller stand for, in order
ItemChunks == IF md_pipeline = "internal" THEN FullTextChunks(md_doc) ELSE md_doc.chunks

\* the pricing terms of the strategy the caller runs
PricingTermsUsed ==
    IF md_pipeline = "internal" THEN {"price", "subscription"} ELSE {"price"}

\* C19: the content_type recorded for a chunk is exactly one of pricing,
\* features, competitive and general, chosen by first match in that order on
\* the text of the chunk, under every strategy.
C19_ContentTypeOneOfFour ==
    MetaDone =>
        \A i \in 1..Len(md_out.items) :
            LET recorded == md_out.items[i]["content_type"].v
            IN /\ recorded.suffix = ""
               /\ recorded.base \in {"pricing", "features", "competitive", "general"}
               /\ recorded.base = ContentType(ItemChunks[i], PricingTermsUsed)


Sorted == cf_pc = "returned" /\ cf_variant \in {"internal", "fixed"}

\* the priority as the claim words it: the index of the first entry of the
\* priority list that occurs in the path, the length of the list when none
ClaimedPriority(f) ==
    LET hits == {i \in 1..Len(cf_priority_dirs) : PathContains(f, cf_priority_dirs[i])}
    IN IF hits = {} THEN Len(cf_priority_dirs)
       ELSE (CHOOSE i \in hits : \A j \in hits : i <= j) - 1

DiscoveredAt(f) == CHOOSE i \in 1..Len(cf_discovered) : cf_discovered[i] = f

Admitted ==
    {cf_discovered[i] : i \in {j \in 1..Len(cf_discovered) :
        should_process_file(cf_discovered[j], cf_include_pdf, cf_exclude_exts)}}

\* C20: the files are processed in ascending priority, the priority of a
\* file being the index of the first entry of the priority list that occurs
\* in its path (the length of the list when none occurs), and two files of
\* equal priority are processed in the order in which they were discovered.
\* The files processed are the admitted files, each once.
C20_ProcessedByPriorityThenDiscovery ==
    Sorted =>
        /\ {cf_ret[i] : i \in 1..Len(cf_ret)} = Admitted
        /\ Len(cf_ret) = Cardinality(Admitted)
        /\ \A i, j \in 1..Len(cf_ret) :
              i < j =>
                 \/ ClaimedPriority(cf_ret[i]) < ClaimedPriority(cf_ret[j])
                 \/ /\ ClaimedPriority(cf_ret[i]) = ClaimedPriority(cf_ret[j])
                    /\ DiscoveredAt(cf_ret[i]) < DiscoveredAt(cf_ret[j])

\* a collection in which the sort moved a file ahead of one discovered
\* earlier, two files tie, a file matches two entries of the priority list
\* and a file matches none
C20_Witness ==
    /\ Sorted
    /\ Len(cf_priority_dirs) = 2
    /\ \E i, j \in 1..Len(cf_ret) :
          i < j /\ DiscoveredAt(cf_ret[i]) > DiscoveredAt(cf_ret[j])
    /\ \E i, j \in 1..Len(cf_ret) :
          i < j /\ ClaimedPriority(cf_ret[i]) = ClaimedPriority(cf_ret[j])
    /\ \E i \in 1..Len(cf_ret) :
          \A k \in 1..2 : PathContains(cf_ret[i], cf_priority_dirs[k])
    /\ cf_ret # <<>>


(***************************************************************************)
(* Claims about the options and the bookkeeping of an ingestion run        *)
(***************************************************************************)
\* the index as the current run found it
IndexAtStart == IF run = 1 THEN {} ELSE prev_collection

\* C21: a dry run reads no file content and writes nothing: whatever the
\* other options are, the index holds the same chunks after a dry run as
\* before it, and the run only enumerates the admitted files.
C21_DryRunLeavesIndexAlone ==
    (ing_pc = "done" /\ dry_run) =>
        /\ collection = IndexAtStart
        /\ result = "dry"
        /\ file_i = 0 /\ enqueued = <<>> /\ flushed = <<>>

LimitSet == limit # 0 /\ ing_pc # "start"

\* C22: when a chunk-count limit is set, the run flushes the pending batch
\* and stops as soon as the number of enqueued items reaches the limit: the
\* number of items enqueued over the whole run never exceeds the limit, and
\* no file is read and no item is enqueued after that flush.
C22_LimitStopsRun ==
    /\ [](LimitSet =>
            /\ Len(enqueued) <= limit
            /\ Len(enqueued) = limit =>
                  /\ ing_pc = "done"
                  /\ result = "limit"
                  /\ flushed = enqueued)
    /\ [][(LimitSet /\ Len(enqueued) >= limit) =>
             UNCHANGED <<enqueued, flushed, file_i, produced, skipped, collection>>]_vars

\* a run stopped by the limit with a file of the processing order never read
C22_Witness ==
    /\ variant \in {"internal", "fixed"}
    /\ result = "limit"
    /\ limit = 2
    /\ Len(enqueued) = limit
    /\ flushed = enqueued
    /\ file_i < Len(all_files)

Returned == ing_pc = "done" /\ result \in {"limit", "complete"}

\* C23: the chunk count reported in the summary of a run equals the number
\* of chunks committed to the index during that run, whatever the batch and
\* per-item commits did.
C23_ReportedCountIsCommittedCount ==
    Returned => chunk_count = Cardinality(collection \ IndexAtStart)

InLoop == ing_pc \in {"file", "chunker", "enqueue"}

\* C27: every enqueued item is handed to flush_batch exactly once, when the
\* run returns (after the file loop or at the limit) no enqueued item is
\* left unflushed, and between two enqueues the pending batch never holds
\* batch_size or more items.
C27_EveryItemFlushedOnce ==
    (variant \in {"internal", "fixed"}) =>
        /\ InLoop => /\ flushed \o batch = enqueued
                     /\ Len(batch) < BatchSize
        /\ Returned => flushed = enqueued

\* a run that returned after a flush of a full batch inside the loop and a
\* last flush of the remainder
C27_Witness ==
    /\ variant \in {"internal", "fixed"}
    /\ Returned
    /\ result = "complete"
    /\ Len(enqueued) = BatchSize + 1
    /\ last_flush.n = 2
    /\ Len(last_flush.batch) = 1
    /\ flushed = enqueued

\* the files the run could not read or process, in the order it met them
Failures ==
    SelectSeq(skipped, LAMBDA k : k.why \in {"raised", "unreadable"})

\* C24: a file that cannot be decoded, or whose processing raises, is
\* skipped and recorded in the failed-file list of the run, and every later
\* file of the processing order is still processed: no failure of a single
\* file ends the run.
C24_FailedFileRecordedRunGoesOn ==
    (variant = "internal") =>
        /\ failed_files = [i \in 1..Len(Failures) |-> Failures[i].file]
        /\ InLoop => Len(skipped) + file_count = file_i - 1
        /\ ing_pc = "done" => /\ result = "complete"
                              /\ Len(skipped) + file_count = Len(all_files)

Raised == SelectSeq(skipped, LAMBDA k : k.why = "raised")

\* C24 as amended: a file whose reading or processing raises is skipped and
\* recorded in the failed-file list of the run, in the order met; a PDF that
\* read_pdf cannot read is skipped as too short and is not recorded there;
\* in both cases every later file of the processing order is still
\* processed and the run ends with its summary.
C24_RaisingFileRecordedRunGoesOn ==
    (variant = "internal") =>
        /\ failed_files = [i \in 1..Len(Raised) |-> Raised[i].file]
        /\ \A i \in 1..Len(skipped) :
              skipped[i].why = "unreadable" => skipped[i].file.ext = ".pdf"
        /\ InLoop => Len(skipped) + file_count = file_i - 1
        /\ ing_pc = "done" => /\ result = "complete"
                              /\ Len(skipped) + file_count = Len(all_files)

\* a completed run whose first file raised, whose second file was a PDF that
\* could not be read and whose third file was chunked and committed
C24_Witness ==
    /\ variant = "internal"
    /\ ing_pc = "done" /\ result = "complete"
    /\ Len(all_files) = 3
    /\ Len(skipped) = 2
    /\ skipped[1] = Skip(all_files[1], "raised")
    /\ skipped[2] = Skip(all_files[2], "unreadable")
    /\ failed_files = <<all_files[1]>>
    /\ \E c \in collection : c.file = all_files[3]

(***************************************************************************)
(* Claim about the quality filter                                          *)
(***************************************************************************)
\* a text holds one of the fixed phrases, in whatever case
HoldsFixedPhrase(t) ==
    \E signal \in boilerplate_signals : Lower(Phrase(t)) = Lower(signal)

\* C25: filter_chunk_quality returns exactly those input chunks, in input
\* order, that have at least min_words words and hold none of the fixed
\* boilerplate phrases (in whatever case), and the filter applied to its
\* own output changes nothing.
C25_FilterKeepsExactlyTheGoodChunks ==
    (fq_pc = "returned") =>
        /\ fq_ret = SelectSeq(fq_chunks,
                       LAMBDA c : WordCount(c) >= fq_min_words /\ ~HoldsFixedPhrase(c))
        /\ fq_twice = fq_ret

\* a call that kept a chunk of exactly min_words words between two dropped
\* ones: one too short, one with a phrase spelled in capitals
C25_Witness ==
    /\ fq_pc = "returned"
    /\ fq_min_words = MinWords
    /\ fq_chunks = <<ShortText, BoundaryText, CapitalLegalText>>
    /\ fq_ret = <<BoundaryText>>
    /\ fq_twice = <<BoundaryText>>

\* C26: in sentence-preserving mode, when no sentence of the text has more
\* than chunk_size words and overlap < chunk_size, every emitted chunk has
\* at most chunk_size words, the chunks that start with sentences carried
\* over as overlap included.
C26_SentenceChunksWithinSize ==
    (/\ SplitReturned
     /\ ck_preserve
     /\ ck_overlap < ck_chunk_size
     /\ \A i \in 1..Len(Sentences(ck_words)) : Len(Sentences(ck_words)[i]) <= ck_chunk_size)
    => \A k \in 1..Len(ck_ret.chunks) : Len(ck_ret.chunks[k]) <= ck_chunk_size

(***************************************************************************)
(* Claim about the size of the hybrid context                              *)
(***************************************************************************)
\* C28: in hybrid mode the context handed to the prompt holds at most 7
\* chunks, for every pair of backend result lists and every oracle response.
C28_HybridContextAtMostSeven ==
    (mode = "hybrid") => Len(context) <= HybridCap

\* a hybrid request whose pool of more than 7 texts was cut to 7 by a
\* response that names every candidate, the last one first
C28_Witness ==
    /\ mode = "hybrid"
    /\ outcome = "answer"
    /\ Len(fused) > HybridCap
    /\ Len(context) = HybridCap
    /\ context[1] = fused[Len(fused)]
    /\ context[HybridCap] = fused[Len(fused) - HybridCap + 1]

(***************************************************************************)
(* Claim about MemorySafeIngestion.flush_batch                             *)
(***************************************************************************)
\* C29: flush_batch submits an item that was already added successfully in
\* this flush no second time: when an add fails part-way through a batch,
\* only the items not yet committed are submitted in the item-by-item
\* fallback.  (Ids are unique over ingest, so an id submitted again after a
\* successful add was submitted again by the same flush.)
C29_CommittedItemNotSubmittedAgain ==
    \A i, j \in 1..Len(ms_adds) :
        (i < j /\ ms_adds[i].id = ms_adds[j].id) => ~ms_adds[i].ok

(***************************************************************************)
(* Claim about the collection repair tools                                 *)
(***************************************************************************)
\* C30: the repair tool deletes the live index directory only after a
\* backup of it has been written successfully in the same run: in every run
\* that removes an existing chroma_db, a complete backup copy of it exists
\* at the moment of removal.
C30_RemovedOnlyAfterBackup ==
    (rp_at_removal # <<>>) =>
        /\ rp_at_removal[1].backed_up
        /\ rp_at_removal[1].backup = CopyOf(rp_at_removal[1].live, TRUE)

\* the same for fix_collection.py alone
FixCollectionBacksUpFirst ==
    (rp_tool = "fix_collection") => C30_RemovedOnlyAfterBackup

====
